---- MODULE Spec2Model ----
(***************************************************************************)
(* A model of the Agent-OS-Kernel core: the scheduler                      *)
(* (src/src/core/scheduler.rs), the context manager                        *)
(* (src/src/core/context.rs) and the kernel (src/src/core/kernel.rs) with  *)
(* the checkpoint table of the storage manager (src/src/core/storage.rs).  *)
(*                                                                         *)
(* Every operation of the code is a pure operator over a record of the     *)
(* component's state (so that the kernel's handlers can chain them), and   *)
(* an action that applies it to the state variables.                       *)
(***************************************************************************)
EXTENDS Integers, Sequences, FiniteSets, TLC

VARIABLES
    \* scheduler.rs: SchedulerConfig.policy and SchedulerState
    policy, ready_queue, running_queue, waiting_queue, processes, resource_usage,
    \* the number of Uuid::new_v4() checkpoint ids drawn so far
    next_uuid,
    \* context.rs: ContextConfig.page_replacement_policy, ContextConfig.page_size
    \* and ContextManager
    page_replacement_policy, page_size, pages_in_memory, swapped_pages, agent_pages, token_usage,
    \* the number of Uuid::new_v4() page ids drawn so far
    next_page_id,
    \* the last value Utc::now() returned, in clock ticks
    clock,
    \* kernel.rs: AgentOSKernel.state, .running and .stats
    kernel_state, running, stats,
    \* storage.rs: the rows of the checkpoints table, by id
    checkpoints,
    \* kernel.rs: where the call of run() stands, its loop counter and its limit
    run_pc, iteration, max_iterations,
    \* kernel.rs: where a call of spawn_agent stands
    spawn_pc,
    \* kernel.rs: where a call of run(None) made by a second task stands
    run2_pc,
    \* context.rs: the guards held on the four RwLocks of the ContextManager, and
    \* where each concurrent call of it stands
    held, call_pc,
    \* security.rs: the SandboxManager's sandboxes by pid, and its audit log
    sandboxes, audit_log

sched_vars == <<policy, ready_queue, running_queue, waiting_queue, processes,
                resource_usage, next_uuid>>

ctx_vars == <<page_replacement_policy, page_size, pages_in_memory, swapped_pages, agent_pages,
              token_usage, next_page_id, clock>>

kernel_vars == <<kernel_state, running, stats, checkpoints, run_pc, iteration,
                 max_iterations, spawn_pc>>

lock_vars == <<held, call_pc>>

\* what the calls modelled as single steps leave alone
sandbox_vars == <<sandboxes, audit_log>>

side_vars == <<lock_vars, sandbox_vars, run2_pc>>

vars == <<sched_vars, ctx_vars, kernel_vars, side_vars>>

(***************************************************************************)
(* Bounds of the model.                                                    *)
(***************************************************************************)
\* processes ever registered with the scheduler
MaxProcs == 2
\* the longest ready queue (the code lets a pid be queued again and again)
MaxQueue == 2
\* cap of a pid's total_tokens (the counter is unbounded in the code)
MaxTotalTokens == 10000
\* checkpoint ids drawn (Uuid::new_v4 never runs out)
MaxUuid == 1
\* checkpoint ids drawn by the kernel's handlers
MaxKernelUuid == 4
\* pages ever allocated
MaxPages == 4
\* clock ticks that pass
MaxTicks == 2
\* clock ticks that pass during test_context_eviction
MaxTestTicks == 3

\* Option::None for a pid, an index or an id (pids and ids count from 1)
None == 0

(***************************************************************************)
(* Sequence helpers standing for the VecDeque / Vec methods the code uses. *)
(***************************************************************************)
\* Vec::retain(|p| p != pid)
retain(q, pid) == SelectSeq(q, LAMBDA p : p # pid)

\* iter().position(|p| p == pid): the first index holding pid, or None
position(q, pid) ==
    IF \E i \in 1..Len(q) : q[i] = pid
    THEN CHOOSE i \in 1..Len(q) : q[i] = pid /\ \A j \in 1..(i - 1) : q[j] # pid
    ELSE None

\* VecDeque::remove(i)
remove_at(q, i) == [j \in 1..(Len(q) - 1) |-> IF j < i THEN q[j] ELSE q[j + 1]]

\* the queue without the first occurrence of pid (position + remove)
remove_first(q, pid) ==
    IF position(q, pid) = None THEN q ELSE remove_at(q, position(q, pid))

\* HashMap::insert
map_insert(m, k, v) == [x \in (DOMAIN m) \cup {k} |-> IF x = k THEN v ELSE m[x]]

\* number of occurrences of pid in q
count(q, pid) == Cardinality({i \in 1..Len(q) : q[i] = pid})

(***************************************************************************)
(* Scheduler (scheduler.rs).                                               *)
(***************************************************************************)
SchedulingPolicy == {"Priority", "RoundRobin", "Fair", "Deadline"}

AgentState == {"Ready", "Running", "Waiting", "Suspended", "Completed", "Terminated"}

\* SchedulerConfig::default().preemption_threshold
preemption_threshold == 10000

\* priorities (u8) the callers register processes with
Priorities == {0, 30, 90}

\* names the callers register processes with
SchedNames == {"Test Process"}

\* token amounts asked of request_resources
TokensNeeded == {10000, 10001}

\* AgentProcess::new
AgentProcess_new(pid, name, priority) ==
    [pid |-> pid, name |-> name, priority |-> priority, state |-> "Ready",
     checkpoint_id |-> None]

\* ResourceUsage::default (runtime_ms and last_active are never read)
ResourceUsage_default == [total_tokens |-> 0, window_tokens |-> 0, api_calls |-> 0]

\* SchedulerState::default
SchedulerState_default ==
    [ready_queue |-> <<>>, running_queue |-> <<>>, waiting_queue |-> <<>>,
     processes |-> <<>>, resource_usage |-> <<>>]

\* the scheduler's state as one record
Sched ==
    [ready_queue |-> ready_queue, running_queue |-> running_queue,
     waiting_queue |-> waiting_queue, processes |-> processes,
     resource_usage |-> resource_usage]

SetSched(s) ==
    /\ ready_queue' = s.ready_queue
    /\ running_queue' = s.running_queue
    /\ waiting_queue' = s.waiting_queue
    /\ processes' = s.processes
    /\ resource_usage' = s.resource_usage

\* add_process
add_process(s, process) ==
    [s EXCEPT !.processes = map_insert(@, process.pid, process),
              !.ready_queue = Append(@, process.pid),
              !.resource_usage = map_insert(@, process.pid, ResourceUsage_default)]

\* check_preemption, first loop: the running pids over the threshold, in order
to_suspend(s) ==
    SelectSeq(s.running_queue,
              LAMBDA p : p \in DOMAIN s.resource_usage
                         /\ s.resource_usage[p].window_tokens > preemption_threshold)

\* check_preemption, second loop, from the i-th pid to suspend on
RECURSIVE preempt_from(_, _, _)
preempt_from(s, ts, i) ==
    IF i > Len(ts) THEN s
    ELSE LET pid == ts[i]
             s1 == [s EXCEPT !.running_queue = retain(@, pid),
                             !.ready_queue = Append(@, pid)]
             s2 == IF pid \in DOMAIN s1.processes
                   THEN [s1 EXCEPT !.processes[pid].state = "Ready"]
                   ELSE s1
         IN preempt_from(s2, ts, i + 1)

check_preemption(s) == preempt_from(s, to_suspend(s), 1)

\* select_priority_task: the loop from index i on, max_priority and
\* selected_index (None or an index) so far
RECURSIVE priority_scan(_, _, _, _)
priority_scan(s, i, max_priority, selected_index) ==
    IF i > Len(s.ready_queue) THEN selected_index
    ELSE LET pid == s.ready_queue[i]
         IN IF pid \in DOMAIN s.processes /\ s.processes[pid].priority > max_priority
            THEN priority_scan(s, i + 1, s.processes[pid].priority, i)
            ELSE priority_scan(s, i + 1, max_priority, selected_index)

select_priority_task(s) == priority_scan(s, 1, 0, None)

\* select_round_robin_task: pop_front
select_round_robin_task(s) == IF Len(s.ready_queue) = 0 THEN None ELSE 1

\* u64::MAX, the start of select_fair_task's minimum (above every modelled total)
U64Max == MaxTotalTokens + 1

\* select_fair_task: the loop from index i on
RECURSIVE fair_scan(_, _, _, _)
fair_scan(s, i, min_usage, selected_index) ==
    IF i > Len(s.ready_queue) THEN selected_index
    ELSE LET pid == s.ready_queue[i]
         IN IF pid \in DOMAIN s.resource_usage
               /\ s.resource_usage[pid].total_tokens < min_usage
            THEN fair_scan(s, i + 1, s.resource_usage[pid].total_tokens, i)
            ELSE fair_scan(s, i + 1, min_usage, selected_index)

select_fair_task(s) == fair_scan(s, 1, U64Max, None)

\* select_deadline_task: task_time = now - 60 s is before earliest_time = now
\* for every element, so the last registered element of the queue is selected
select_deadline_task(s) ==
    LET hits == {i \in 1..Len(s.ready_queue) : s.ready_queue[i] \in DOMAIN s.processes}
    IN IF hits = {} THEN None ELSE CHOOSE i \in hits : \A j \in hits : j <= i

\* select_next_task: the index into ready_queue of the selected pid, or None
select_next_task(s, pol) ==
    CASE pol = "Priority" -> select_priority_task(s)
      [] pol = "RoundRobin" -> select_round_robin_task(s)
      [] pol = "Fair" -> select_fair_task(s)
      [] pol = "Deadline" -> select_deadline_task(s)

\* schedule: the state after the call and the returned Option<AgentProcess>
\* (<<>> for None, or <<p>> for Some(p), p the copy of the process whose state
\* was set to Running)
schedule(s, pol) ==
    LET s1 == check_preemption(s)
        i == select_next_task(s1, pol)
    IN IF i = None THEN [s |-> s1, ret |-> <<>>]
       ELSE LET pid == s1.ready_queue[i]
                s2 == [s1 EXCEPT !.ready_queue = remove_at(@, i)]
            IN IF pid \in DOMAIN s2.processes
               THEN [s |-> [s2 EXCEPT !.running_queue = Append(@, pid)],
                     ret |-> <<[s2.processes[pid] EXCEPT !.state = "Running"]>>]
               ELSE [s |-> s2, ret |-> <<>>]

\* request_resources with `<` for `<=` in the test against the threshold
request_resources_strict(s, pid, tokens_needed) ==
    IF pid \in DOMAIN s.resource_usage
       /\ s.resource_usage[pid].window_tokens + tokens_needed < preemption_threshold
    THEN [s |-> [s EXCEPT !.resource_usage[pid] =
                    [total_tokens |-> @.total_tokens + tokens_needed,
                     window_tokens |-> @.window_tokens + tokens_needed,
                     api_calls |-> @.api_calls + 1]],
          ret |-> TRUE]
    ELSE [s |-> s, ret |-> FALSE]

\* request_resources that grants every request of a known pid
request_resources_unchecked(s, pid, tokens_needed) ==
    IF pid \in DOMAIN s.resource_usage
    THEN [s |-> [s EXCEPT !.resource_usage[pid] =
                    [total_tokens |-> @.total_tokens + tokens_needed,
                     window_tokens |-> @.window_tokens + tokens_needed,
                     api_calls |-> @.api_calls + 1]],
          ret |-> TRUE]
    ELSE [s |-> s, ret |-> FALSE]

\* request_resources: the state after the call and the returned bool
request_resources(s, pid, tokens_needed) ==
    IF pid \in DOMAIN s.resource_usage
       /\ s.resource_usage[pid].window_tokens + tokens_needed <= preemption_threshold
    THEN [s |-> [s EXCEPT !.resource_usage[pid] =
                    [total_tokens |-> @.total_tokens + tokens_needed,
                     window_tokens |-> @.window_tokens + tokens_needed,
                     api_calls |-> @.api_calls + 1]],
          ret |-> TRUE]
    ELSE [s |-> s, ret |-> FALSE]

\* a suspension that leaves the pid in the running queue
suspend_process_keep_running(s, pid, create_checkpoint, uuid) ==
    LET can_suspend == pid \in DOMAIN s.processes
                       /\ s.processes[pid].state \in {"Running", "Ready"}
    IN IF can_suspend
       THEN LET s1 == [s EXCEPT !.processes[pid].state = "Suspended",
                                !.ready_queue = retain(@, pid),
                                !.waiting_queue = Append(remove_first(@, pid), pid)]
            IN IF create_checkpoint
               THEN [s |-> [s1 EXCEPT !.processes[pid].checkpoint_id = uuid],
                     ret |-> uuid]
               ELSE [s |-> s1, ret |-> None]
       ELSE [s |-> s, ret |-> None]

\* suspend_process with the fresh Uuid::new_v4() it would draw: the state after
\* the call and the returned Option<CheckpointId>
suspend_process(s, pid, create_checkpoint, uuid) ==
    LET can_suspend == pid \in DOMAIN s.processes
                       /\ s.processes[pid].state \in {"Running", "Ready"}
    IN IF can_suspend
       THEN LET s1 == [s EXCEPT !.processes[pid].state = "Suspended",
                                !.running_queue = retain(@, pid),
                                !.ready_queue = retain(@, pid),
                                !.waiting_queue = Append(remove_first(@, pid), pid)]
            IN IF create_checkpoint
               THEN [s |-> [s1 EXCEPT !.processes[pid].checkpoint_id = uuid],
                     ret |-> uuid]
               ELSE [s |-> s1, ret |-> None]
       ELSE [s |-> s, ret |-> None]

\* wait_process
wait_process(s, pid) ==
    IF pid \in DOMAIN s.processes
    THEN [s EXCEPT !.processes[pid].state = "Waiting"]
    ELSE s

\* terminate_process
terminate_process(s, pid) ==
    IF pid \in DOMAIN s.processes
    THEN [s EXCEPT !.processes[pid].state = "Terminated",
                   !.running_queue = retain(@, pid),
                   !.ready_queue = retain(@, pid),
                   !.waiting_queue = retain(@, pid)]
    ELSE s

\* resume_process
resume_process(s, pid) ==
    IF pid \in DOMAIN s.processes
       /\ s.processes[pid].state \in {"Suspended", "Waiting"}
    THEN [s EXCEPT !.processes[pid].state = "Ready",
                   !.waiting_queue = remove_first(@, pid),
                   !.ready_queue = Append(@, pid)]
    ELSE s

\* a clearing that resets the whole usage record
clear_window_usage_all(s) ==
    [s EXCEPT !.resource_usage = [p \in DOMAIN @ |-> ResourceUsage_default]]

\* clear_window_usage
clear_window_usage(s) ==
    [s EXCEPT !.resource_usage =
        [p \in DOMAIN @ |-> [@[p] EXCEPT !.window_tokens = 0]]]

(***************************************************************************)
(* Context manager (context.rs).                                           *)
(*                                                                         *)
(* A text is modelled by what estimate_tokens reads of it: the number of   *)
(* its CJK code points (three bytes each in UTF-8) and of its one-byte     *)
(* characters.  A timestamp is a number of clock ticks, TicksPerMs ticks   *)
(* to the millisecond; an importance is a number of tenths.  usize values  *)
(* are kept as the signed representative of the wrapped value, so that a   *)
(* negative number stands for a value just below usize::MAX.               *)
(***************************************************************************)
PageReplacementPolicy == {"Lru", "LruImportance", "Importance", "SemanticSimilarity"}

PageType == {"System", "User", "Working", "LongTerm", "ToolResult", "Task", "Tools"}

\* ContextConfig: max_context_tokens of test_context_eviction
max_context_tokens == 1000

\* ContextConfig.page_size: of ContextConfig::default and of test_context_eviction
DefaultPageSize == 1000
TestPageSize == 500
PageSizes == {DefaultPageSize, TestPageSize}

\* the time the model starts at, in ticks
Epoch == 1000000
TicksPerMs == 2

\* DateTime::timestamp_millis
timestamp_millis(ts) == ts \div TicksPerMs

\* unsigned comparison a > b of a usize a with a small b
usize_gt(a, b) == a < 0 \/ a > b

\* text.len() in bytes
byte_len(text) == 3 * text.cjk + text.ascii

\* estimate_tokens
estimate_tokens(text) ==
    LET chinese_chars == text.cjk
        english_chars == IF byte_len(text) >= chinese_chars
                         THEN byte_len(text) - chinese_chars ELSE 0
    IN chinese_chars \div 2 + english_chars \div 4 + 1

\* f32::clamp(0.0, 1.0) on tenths
clamp(importance) ==
    IF importance < 0 THEN 0 ELSE IF importance > 10 THEN 10 ELSE importance

\* ContextPage::new
ContextPage_new(id, agent_pid, content, importance, page_type, token_count, now) ==
    [id |-> id, agent_pid |-> agent_pid, content |-> content,
     importance |-> clamp(importance), page_type |-> page_type,
     last_accessed |-> now, created_at |-> now, token_count |-> token_count,
     status |-> "InMemory"]

\* LlmMessage::new (the timestamp is never read)
LlmMessage_new(role, content) == [role |-> role, content |-> content]

\* ContextManager::new: the capacity of the LRU cache
cache_size == IF (max_context_tokens \div page_size) * 2 = 0
              THEN 1 ELSE (max_context_tokens \div page_size) * 2

\* The LruCache is a sequence of pages, the most recently used first.
lru_index(mem, id) ==
    IF \E i \in 1..Len(mem) : mem[i].id = id
    THEN CHOOSE i \in 1..Len(mem) : mem[i].id = id
    ELSE None

lru_contains(mem, id) == lru_index(mem, id) # None

\* LruCache::peek
lru_peek(mem, id) == mem[lru_index(mem, id)]

\* LruCache::pop
lru_pop(mem, id) == SelectSeq(mem, LAMBDA p : p.id # id)

\* LruCache::put: a new key takes the place of the least recently used entry
\* when the cache is full
lru_put(mem, page) ==
    IF lru_contains(mem, page.id) THEN <<page>> \o lru_pop(mem, page.id)
    ELSE IF Len(mem) >= cache_size THEN <<page>> \o SubSeq(mem, 1, cache_size - 1)
    ELSE <<page>> \o mem

\* HashMap::remove
map_remove(m, k) == [x \in (DOMAIN m) \ {k} |-> m[x]]

\* the context manager's state as one record
Ctx ==
    [pages_in_memory |-> pages_in_memory, swapped_pages |-> swapped_pages,
     agent_pages |-> agent_pages, token_usage |-> token_usage]

SetCtx(c) ==
    /\ pages_in_memory' = c.pages_in_memory
    /\ swapped_pages' = c.swapped_pages
    /\ agent_pages' = c.agent_pages
    /\ token_usage' = c.token_usage

\* evict_pages: whether page a sorts strictly before page b under the policy
evict_less(pol, a, b) ==
    CASE pol = "Lru" -> a.last_accessed < b.last_accessed
      [] pol = "LruImportance" ->
            timestamp_millis(a.last_accessed) * a.importance
                < timestamp_millis(b.last_accessed) * b.importance
      [] pol = "Importance" -> a.importance < b.importance
      [] pol = "SemanticSimilarity" -> a.last_accessed < b.last_accessed

\* get_agent_context: the type priority of the cache-optimized order
type_priority(page_type) ==
    CASE page_type = "System" -> 5
      [] page_type = "Task" -> 4
      [] page_type = "Tools" -> 3
      [] page_type = "Working" -> 2
      [] page_type = "ToolResult" -> 1
      [] page_type \in {"User", "LongTerm"} -> 0

\* a comparator that sorts the cache-optimized order by ascending type priority
context_less_ascending(optimize_for_cache, a, b) ==
    IF optimize_for_cache
    THEN IF type_priority(a.page_type) # type_priority(b.page_type)
         THEN type_priority(a.page_type) < type_priority(b.page_type)
         ELSE b.last_accessed < a.last_accessed
    ELSE a.created_at < b.created_at

\* get_agent_context: whether page a sorts strictly before page b
context_less(optimize_for_cache, a, b) ==
    IF optimize_for_cache
    THEN IF type_priority(a.page_type) # type_priority(b.page_type)
         THEN type_priority(b.page_type) < type_priority(a.page_type)
         ELSE b.last_accessed < a.last_accessed
    ELSE a.created_at < b.created_at

\* the comparator of a sort_by call: order is a replacement policy (the call
\* in evict_pages) or names one of the two calls in get_agent_context
page_less(order, a, b) ==
    IF order \in {"CacheOptimized", "Chronological"}
    THEN context_less(order = "CacheOptimized", a, b)
    ELSE evict_less(order, a, b)

\* slice::sort_by (a stable sort): x goes behind the elements not after it
RECURSIVE insert_sorted(_, _, _)
insert_sorted(sorted, x, order) ==
    IF sorted = <<>> THEN <<x>>
    ELSE IF page_less(order, x, Head(sorted)) THEN <<x>> \o sorted
    ELSE <<Head(sorted)>> \o insert_sorted(Tail(sorted), x, order)

RECURSIVE sort_by(_, _)
sort_by(s, order) ==
    IF s = <<>> THEN <<>>
    ELSE insert_sorted(sort_by(SubSeq(s, 1, Len(s) - 1), order), s[Len(s)], order)

\* evict_pages with an `if` for the `while`: at most one victim is evicted
evict_once(c, pages) ==
    IF usize_gt(c.token_usage, (max_context_tokens * 90) \div 100) /\ pages # <<>>
    THEN LET page == Head(pages)
         IN [c EXCEPT
               !.pages_in_memory = lru_pop(@, page.id),
               !.swapped_pages = map_insert(@, page.id, page),
               !.agent_pages =
                   IF page.agent_pid \in DOMAIN @
                   THEN [@ EXCEPT ![page.agent_pid] = remove_first(@, page.id)]
                   ELSE @,
               !.token_usage = @ - page.token_count]
    ELSE c

\* evict_pages, the while loop over the sorted victims
RECURSIVE evict_loop(_, _)
evict_loop(c, pages) ==
    IF usize_gt(c.token_usage, (max_context_tokens * 90) \div 100) /\ pages # <<>>
    THEN LET page == Head(pages)
             c1 == [c EXCEPT
                      !.pages_in_memory = lru_pop(@, page.id),
                      !.swapped_pages = map_insert(@, page.id, page),
                      !.agent_pages =
                          IF page.agent_pid \in DOMAIN @
                          THEN [@ EXCEPT ![page.agent_pid] = remove_first(@, page.id)]
                          ELSE @,
                      !.token_usage = @ - page.token_count]
         IN evict_loop(c1, Tail(pages))
    ELSE c

\* evict_pages
evict_pages(c, pol) ==
    evict_loop(c, sort_by(c.pages_in_memory, pol))

\* allocate_page with the fresh page id and the time of the call: the state
\* after the call and the returned PageId
allocate_page(c, pol, agent_pid, content, importance, page_type, id, now) ==
    LET token_count == estimate_tokens(content)
        page == ContextPage_new(id, agent_pid, content, importance, page_type,
                                token_count, now)
        c1 == [c EXCEPT
                 !.pages_in_memory = lru_put(@, page),
                 !.agent_pages =
                     IF agent_pid \in DOMAIN @
                     THEN [@ EXCEPT ![agent_pid] = Append(@, page.id)]
                     ELSE map_insert(@, agent_pid, <<page.id>>),
                 !.token_usage = @ + token_count]
        should_evict == usize_gt(c1.token_usage, max_context_tokens)
    IN [c |-> IF should_evict THEN evict_pages(c1, pol) ELSE c1, ret |-> page.id]

\* access_page whose page-fault path reads the swap tier with get for remove:
\* the page stays in the swap tier
access_page_keep_swap(c, page_id, now) ==
    IF lru_contains(c.pages_in_memory, page_id)
    THEN LET page == [lru_peek(c.pages_in_memory, page_id) EXCEPT !.last_accessed = now]
         IN [c |-> [c EXCEPT !.pages_in_memory = <<page>> \o lru_pop(@, page_id)],
             ret |-> <<page>>]
    ELSE IF page_id \in DOMAIN c.swapped_pages
    THEN LET page == c.swapped_pages[page_id]
         IN [c |-> [c EXCEPT !.pages_in_memory = lru_put(@, page)],
             ret |-> <<page>>]
    ELSE [c |-> c, ret |-> <<>>]

\* access_page at the time of the call: the state after the call and the
\* returned Option<ContextPage> (<<>> for None, <<p>> for Some(p))
access_page(c, page_id, now) ==
    IF lru_contains(c.pages_in_memory, page_id)
    THEN LET page == [lru_peek(c.pages_in_memory, page_id) EXCEPT !.last_accessed = now]
         IN [c |-> [c EXCEPT !.pages_in_memory = <<page>> \o lru_pop(@, page_id)],
             ret |-> <<page>>]
    ELSE IF page_id \in DOMAIN c.swapped_pages
    THEN LET page == c.swapped_pages[page_id]
         IN [c |-> [c EXCEPT !.swapped_pages = map_remove(@, page_id),
                             !.pages_in_memory = lru_put(@, page)],
             ret |-> <<page>>]
    ELSE [c |-> c, ret |-> <<>>]

\* get_agent_context: the role of a page's message
role_of(page_type) ==
    CASE page_type = "System" -> "system"
      [] page_type = "User" -> "user"
      [] page_type \in {"Task", "Tools", "LongTerm"} -> "system"
      [] page_type \in {"Working", "ToolResult"} -> "assistant"

\* get_agent_context, first loop: the agent's pages found in either tier
RECURSIVE collect_pages(_, _)
collect_pages(c, page_ids) ==
    IF page_ids = <<>> THEN <<>>
    ELSE LET page_id == Head(page_ids)
             found == IF lru_contains(c.pages_in_memory, page_id)
                      THEN <<lru_peek(c.pages_in_memory, page_id)>>
                      ELSE IF page_id \in DOMAIN c.swapped_pages
                      THEN <<c.swapped_pages[page_id]>>
                      ELSE <<>>
         IN found \o collect_pages(c, Tail(page_ids))

\* get_agent_context, last loop: the pages whose messages are pushed, given
\* the tokens pushed so far
RECURSIVE accumulate(_, _)
accumulate(pages, total_tokens) ==
    IF pages = <<>> THEN <<>>
    ELSE LET total == total_tokens + Head(pages).token_count
         IN IF total > max_context_tokens
            THEN <<Head(pages)>>
            ELSE <<Head(pages)>> \o accumulate(Tail(pages), total)

\* get_agent_context: the pages whose messages are returned, in order
context_pages(c, agent_pid, optimize_for_cache) ==
    IF agent_pid \in DOMAIN c.agent_pages
    THEN accumulate(sort_by(collect_pages(c, c.agent_pages[agent_pid]),
                            IF optimize_for_cache THEN "CacheOptimized"
                            ELSE "Chronological"), 0)
    ELSE <<>>

\* get_agent_context
get_agent_context(c, agent_pid, optimize_for_cache) ==
    LET pages == context_pages(c, agent_pid, optimize_for_cache)
    IN [i \in 1..Len(pages) |-> LlmMessage_new(role_of(pages[i].page_type),
                                               pages[i].content)]

\* get_token_usage
get_token_usage(c) == c.token_usage

\* iter().map(|page| page.token_count).sum()
RECURSIVE sum_tokens(_)
sum_tokens(pages) ==
    IF pages = <<>> THEN 0 ELSE Head(pages).token_count + sum_tokens(Tail(pages))

(***************************************************************************)
(* Storage manager (storage.rs): the checkpoints table.  db_ok says whether *)
(* the database executes the statement of the call.                        *)
(***************************************************************************)
\* Result::Ok(value) and Result::Err(error)
Ok(value) == [ok |-> TRUE, value |-> value, error |-> ""]
Err(value, error) == [ok |-> FALSE, value |-> value, error |-> error]

\* StorageManager::create_checkpoint with the fresh Uuid::new_v4() it draws:
\* the table after the call and the returned Result<CheckpointId, Error>
Storage_create_checkpoint(table, agent_pid, state_data, uuid, db_ok) ==
    IF db_ok
    THEN [table |-> map_insert(table, uuid,
                               [agent_pid |-> agent_pid, state |-> state_data]),
          ret |-> Ok(uuid)]
    ELSE [table |-> table, ret |-> Err(None, "sqlx::Error")]

\* StorageManager::load_checkpoint: the returned Result<Option<Value>, Error>
\* (<<>> for None, <<v>> for Some(v))
Storage_load_checkpoint(table, checkpoint_id, db_ok) ==
    IF db_ok
    THEN Ok(IF checkpoint_id \in DOMAIN table
            THEN <<table[checkpoint_id].state>> ELSE <<>>)
    ELSE Err(<<>>, "sqlx::Error")

(***************************************************************************)
(* Kernel (kernel.rs).  The kernel builds its scheduler with the Priority  *)
(* policy and its context manager with the LruImportance policy.           *)
(***************************************************************************)
KernelState == {"Initializing", "Running", "Paused", "ShuttingDown", "Shutdown"}

\* the strings passed to spawn_agent and create_checkpoint
KernelNames == {"Coder"}
Tasks == {"Fix the bug"}
Descriptions == {"before deploy"}

\* the text of a string
text(str) ==
    CASE str = "Coder" -> [cjk |-> 0, ascii |-> 5]
      [] str = "Fix the bug" -> [cjk |-> 0, ascii |-> 11]

\* format!: literal_bytes one-byte characters around the texts a and b
format(literal_bytes, a, b) ==
    [cjk |-> a.cjk + b.cjk, ascii |-> literal_bytes + a.ascii + b.ascii]

empty_text == [cjk |-> 0, ascii |-> 0]

\* KernelStats::default (the counters the handlers only add to are left out)
KernelStats_default == [total_agents |-> 0, active_agents |-> 0]

\* the kernel's state as one record
Kernel ==
    [state |-> kernel_state, running |-> running, stats |-> stats,
     sched |-> Sched, ctx |-> Ctx, checkpoints |-> checkpoints,
     next_uuid |-> next_uuid, next_page_id |-> next_page_id]

SetKernel(k) ==
    /\ kernel_state' = k.state
    /\ running' = k.running
    /\ stats' = k.stats
    /\ SetSched(k.sched)
    /\ SetCtx(k.ctx)
    /\ checkpoints' = k.checkpoints
    /\ next_uuid' = k.next_uuid
    /\ next_page_id' = k.next_page_id

\* the pid format!("agent-{}", Uuid::new_v4()) gives a new process
Kernel_fresh_pid(k) == Cardinality(DOMAIN k.sched.processes) + 1

\* a check that lets spawn_agent pass in every state
Kernel_spawn_check_any_state(k) ==
    [k |-> [k EXCEPT !.state = "Running"], ret |-> Ok(None)]

\* spawn_agent, up to the release of the state lock: an error unless the state
\* is Initializing or Running
Kernel_spawn_check(k) ==
    IF k.state # "Initializing" /\ k.state # "Running"
    THEN [k |-> k, ret |-> Err(None, "Kernel not in valid state")]
    ELSE [k |-> [k EXCEPT !.state = "Running"], ret |-> Ok(None)]

\* spawn_agent without a security policy, after the release of the state lock,
\* the two pages allocated at now1 and now2
Kernel_spawn_body(k, name, task, priority, now1, now2) ==
    LET pid == Kernel_fresh_pid(k)
        process == AgentProcess_new(pid, name, priority)
        system_prompt == format(21, text(name), text(task))
        a1 == allocate_page(k.ctx, "LruImportance", pid, system_prompt, 10,
                            "System", k.next_page_id + 1, now1)
        task_page == format(14, text(task), empty_text)
        a2 == allocate_page(a1.c, "LruImportance", pid, task_page, 9,
                            "Task", k.next_page_id + 2, now2)
    IN [k |-> [k EXCEPT !.sched = add_process(@, process),
                        !.ctx = a2.c,
                        !.next_page_id = @ + 2,
                        !.stats.total_agents = @ + 1],
        ret |-> Ok(pid)]

\* spawn_agent without a security policy: the state after the call and the
\* returned Result<AgentPid, _>
Kernel_spawn_agent(k, name, task, priority, now1, now2) ==
    LET c == Kernel_spawn_check(k)
    IN IF ~c.ret.ok THEN c
       ELSE Kernel_spawn_body(c.k, name, task, priority, now1, now2)

\* a create_checkpoint that writes to storage before it asks the scheduler
Kernel_create_checkpoint_write_first(k, pid, description, db_ok) ==
    IF k.state # "Running"
    THEN [k |-> k, ret |-> Err(None, "Kernel not in running state")]
    ELSE LET w == Storage_create_checkpoint(
                      k.checkpoints, pid, [description |-> description],
                      k.next_uuid + 2, db_ok)
             r == suspend_process(k.sched, pid, TRUE, k.next_uuid + 1)
             k1 == [k EXCEPT !.sched = r.s,
                             !.checkpoints = w.table,
                             !.next_uuid = @ + 2]
         IN IF r.ret # None /\ w.ret.ok
            THEN [k |-> k1, ret |-> Ok(r.ret)]
            ELSE [k |-> k1, ret |-> Err(None, "Failed to create checkpoint")]

\* create_checkpoint: the state after the call and the returned
\* Result<CheckpointId, _>
Kernel_create_checkpoint(k, pid, description, db_ok) ==
    IF k.state # "Running"
    THEN [k |-> k, ret |-> Err(None, "Kernel not in running state")]
    ELSE LET r == suspend_process(k.sched, pid, TRUE, k.next_uuid + 1)
         IN IF r.ret # None
            THEN LET w == Storage_create_checkpoint(
                              k.checkpoints, pid, [description |-> description],
                              k.next_uuid + 2, db_ok)
                     k1 == [k EXCEPT !.sched = r.s,
                                     !.checkpoints = w.table,
                                     !.next_uuid = @ + 2]
                 IN [k |-> k1,
                     ret |-> IF w.ret.ok THEN Ok(r.ret) ELSE Err(None, w.ret.error)]
            ELSE [k |-> [k EXCEPT !.sched = r.s],
                  ret |-> Err(None, "Failed to create checkpoint")]

\* a restore_checkpoint that registers a process whether or not the id is stored
Kernel_restore_checkpoint_unchecked(k, checkpoint_id, db_ok) ==
    IF k.state # "Initializing" /\ k.state # "Running"
    THEN [k |-> k, ret |-> Err(None, "Kernel not in valid state")]
    ELSE LET pid == Kernel_fresh_pid(k)
             process == AgentProcess_new(pid, "Restored Agent", 50)
         IN [k |-> [k EXCEPT !.sched = add_process(@, process)], ret |-> Ok(pid)]

\* restore_checkpoint: the state after the call and the returned
\* Result<AgentPid, _>
Kernel_restore_checkpoint(k, checkpoint_id, db_ok) ==
    IF k.state # "Initializing" /\ k.state # "Running"
    THEN [k |-> k, ret |-> Err(None, "Kernel not in valid state")]
    ELSE LET state_data == Storage_load_checkpoint(k.checkpoints, checkpoint_id, db_ok)
         IN IF ~state_data.ok THEN [k |-> k, ret |-> Err(None, state_data.error)]
            ELSE IF state_data.value # <<>>
            THEN LET pid == Kernel_fresh_pid(k)
                     process == AgentProcess_new(pid, "Restored Agent", 50)
                 IN [k |-> [k EXCEPT !.sched = add_process(@, process)],
                     ret |-> Ok(pid)]
            ELSE [k |-> k, ret |-> Err(None, "Checkpoint not found")]

\* run, up to the release of the state lock: the state after it and the
\* Result the call returns if it returns here
Kernel_run_enter(k) ==
    IF k.state = "Running"
    THEN [k |-> k, ret |-> Err(None, "Kernel already running")]
    ELSE [k |-> [k EXCEPT !.state = "Running"], ret |-> Ok(None)]

\* execute_agent_step
execute_agent_step(k, pid) ==
    LET context == get_agent_context(k.ctx, pid, TRUE)
        tokens_needed == sum_tokens([i \in 1..Len(context) |->
                             [token_count |-> estimate_tokens(context[i].content)]])
    IN [k EXCEPT !.sched = request_resources(@, pid, tokens_needed).s]

\* a pass of the loop body that puts the pid back into the ready queue after
\* its step
Kernel_run_iteration_requeue(k) ==
    LET r == schedule(k.sched, "Priority")
        k1 == [k EXCEPT !.sched = r.s]
    IN IF r.ret # <<>>
       THEN LET pid == r.ret[1].pid
                k2 == execute_agent_step(k1, pid)
            IN [k2 EXCEPT !.sched.running_queue = retain(@, pid),
                          !.sched.ready_queue = Append(@, pid),
                          !.sched.processes[pid].state = "Ready"]
       ELSE k1

\* run, one pass of the loop body after the two exit tests
Kernel_run_iteration(k) ==
    LET r == schedule(k.sched, "Priority")
        k1 == [k EXCEPT !.sched = r.s]
    IN IF r.ret # <<>> THEN execute_agent_step(k1, r.ret[1].pid) ELSE k1

\* shutdown, the loop over the pids in the order the HashMap yields them
RECURSIVE suspend_all(_, _)
suspend_all(k, pids) ==
    IF pids = <<>> THEN k
    ELSE LET r == suspend_process(k.sched, Head(pids), TRUE, k.next_uuid + 1)
         IN suspend_all([k EXCEPT !.sched = r.s,
                                  !.next_uuid = IF r.ret # None THEN @ + 1 ELSE @],
                        Tail(pids))

\* the orders in which a HashMap can yield its keys
key_orders(m) ==
    {order \in [1..Cardinality(DOMAIN m) -> DOMAIN m] :
        \A i, j \in DOMAIN order : order[i] = order[j] => i = j}

\* shutdown with the order of the process table's keys
Kernel_shutdown(k, pids) ==
    LET k1 == [k EXCEPT !.running = FALSE,
                        !.state = "ShuttingDown",
                        !.stats.active_agents = 0]
    IN [suspend_all(k1, pids) EXCEPT !.state = "Shutdown"]

(***************************************************************************)
(* The context manager's calls as actions.                                 *)
(***************************************************************************)
\* agents that own pages
AgentPids == {1}

\* "Hello world!" (4 tokens) and a text of 3996 bytes (1000 tokens)
Contents == {[cjk |-> 0, ascii |-> 12], [cjk |-> 0, ascii |-> 3996]}

\* importances passed to allocate_page, in tenths
Importances == {3, 9}

\* page types passed to allocate_page
PageTypeArgs == {"User"}

\* the values Utc::now() can return: the clock stands or has moved on
Now == {clock, clock + 1}

fresh_page_id == next_page_id + 1

AllocatePage ==
    /\ fresh_page_id <= MaxPages
    /\ \E agent_pid \in AgentPids, content \in Contents, importance \in Importances,
          page_type \in PageTypeArgs, now \in Now :
          /\ now <= Epoch + MaxTicks
          /\ SetCtx(allocate_page(Ctx, page_replacement_policy, agent_pid, content,
                                  importance, page_type, fresh_page_id, now).c)
          /\ clock' = now
    /\ next_page_id' = fresh_page_id
    /\ UNCHANGED <<page_replacement_policy, page_size, sched_vars, kernel_vars, side_vars>>

\* a text of 7996 bytes (2000 tokens), more than max_context_tokens
OversizedContents == {[cjk |-> 0, ascii |-> 7996]}

\* allocate_page with a content larger than the whole window
AllocateOversizedPage ==
    /\ fresh_page_id <= MaxPages
    /\ \E agent_pid \in AgentPids, content \in OversizedContents,
          importance \in Importances, page_type \in PageTypeArgs, now \in Now :
          /\ now <= Epoch + MaxTicks
          /\ SetCtx(allocate_page(Ctx, page_replacement_policy, agent_pid, content,
                                  importance, page_type, fresh_page_id, now).c)
          /\ clock' = now
    /\ next_page_id' = fresh_page_id
    /\ UNCHANGED <<page_replacement_policy, page_size, sched_vars, kernel_vars, side_vars>>

AccessPage ==
    \E page_id \in 1..fresh_page_id, now \in Now :
        /\ now <= Epoch + MaxTicks
        /\ SetCtx(access_page(Ctx, page_id, now).c)
        /\ clock' = IF lru_contains(pages_in_memory, page_id) THEN now ELSE clock
        /\ UNCHANGED <<page_replacement_policy, page_size, next_page_id, sched_vars, kernel_vars, side_vars>>

\* test_context_eviction: the number of pages the loop allocates
TestPages == 10

\* test_context_eviction: format!("Page {}: x{}", i, "x".repeat(200)), 209 bytes
TestContent == [cjk |-> 0, ascii |-> 209]

\* test_context_eviction, one pass of the loop (i is the number of pages so far)
TestAllocatePage ==
    /\ next_page_id < TestPages
    /\ \E now \in Now :
          /\ now <= Epoch + MaxTestTicks
          /\ SetCtx(allocate_page(Ctx, page_replacement_policy, 2, TestContent,
                                  IF next_page_id % 2 = 0 THEN 9 ELSE 3, "Working",
                                  fresh_page_id, now).c)
          /\ clock' = now
    /\ next_page_id' = fresh_page_id
    /\ UNCHANGED <<page_replacement_policy, page_size, sched_vars, kernel_vars, side_vars>>

\* the page types of a prompt: the four of the assembly example
TypedPageArgs == {"System", "Working", "Task", "ToolResult"}

\* short texts, a different one for each page (4 tokens each)
TypedContent(id) == [cjk |-> 0, ascii |-> 11 + id]

\* allocate_page for a page of any of the types of a prompt
AllocateTypedPage ==
    /\ fresh_page_id <= MaxPages
    /\ \E page_type \in TypedPageArgs, now \in Now :
          /\ now <= Epoch + MaxTicks
          /\ SetCtx(allocate_page(Ctx, page_replacement_policy, 1,
                                  TypedContent(fresh_page_id), 9, page_type,
                                  fresh_page_id, now).c)
          /\ clock' = now
    /\ next_page_id' = fresh_page_id
    /\ UNCHANGED <<page_replacement_policy, page_size, sched_vars, kernel_vars, side_vars>>

\* ContextManager::new with any replacement policy
CtxInit ==
    /\ page_replacement_policy \in PageReplacementPolicy
    /\ page_size \in PageSizes
    /\ pages_in_memory = <<>>
    /\ swapped_pages = <<>>
    /\ agent_pages = <<>>
    /\ token_usage = 0
    /\ next_page_id = 0
    /\ clock = Epoch

CtxNext ==
    \/ AllocatePage
    \/ AccessPage

(***************************************************************************)
(* The scheduler's calls as actions.  A pid argument is any pid the        *)
(* scheduler knows or one it does not (MaxProcs + 1 is never registered).  *)
(***************************************************************************)
PidArgs == 1..(MaxProcs + 1)

\* the pid a newly registered process gets: pids are unique per kernel
fresh_pid == Cardinality(DOMAIN processes) + 1

\* the value of the next Uuid::new_v4()
fresh_uuid == next_uuid + 1

AddProcess ==
    /\ fresh_pid <= MaxProcs
    /\ Len(ready_queue) < MaxQueue
    /\ \E name \in SchedNames, priority \in Priorities :
          SetSched(add_process(Sched, AgentProcess_new(fresh_pid, name, priority)))
    /\ UNCHANGED <<policy, next_uuid, ctx_vars, kernel_vars, side_vars>>

Schedule ==
    LET r == schedule(Sched, policy)
    IN /\ Len(r.s.running_queue) <= MaxQueue
       /\ SetSched(r.s)
       /\ UNCHANGED <<policy, next_uuid, ctx_vars, kernel_vars, side_vars>>

RequestResources ==
    \E pid \in PidArgs, tokens_needed \in TokensNeeded :
        LET r == request_resources(Sched, pid, tokens_needed)
        IN /\ \A p \in DOMAIN r.s.resource_usage :
                  r.s.resource_usage[p].total_tokens <= MaxTotalTokens
           /\ SetSched(r.s)
           /\ UNCHANGED <<policy, next_uuid, ctx_vars, kernel_vars, side_vars>>

SuspendProcess ==
    \E pid \in PidArgs, create_checkpoint \in BOOLEAN :
        LET r == suspend_process(Sched, pid, create_checkpoint, fresh_uuid)
        IN /\ (r.ret # None) => fresh_uuid <= MaxUuid
           /\ SetSched(r.s)
           /\ next_uuid' = IF r.ret # None THEN fresh_uuid ELSE next_uuid
           /\ UNCHANGED <<policy, ctx_vars, kernel_vars, side_vars>>

WaitProcess ==
    \E pid \in PidArgs :
        /\ SetSched(wait_process(Sched, pid))
        /\ UNCHANGED <<policy, next_uuid, ctx_vars, kernel_vars, side_vars>>

TerminateProcess ==
    \E pid \in PidArgs :
        /\ SetSched(terminate_process(Sched, pid))
        /\ UNCHANGED <<policy, next_uuid, ctx_vars, kernel_vars, side_vars>>

ResumeProcess ==
    \E pid \in PidArgs :
        LET s == resume_process(Sched, pid)
        IN /\ Len(s.ready_queue) <= MaxQueue
           /\ SetSched(s)
           /\ UNCHANGED <<policy, next_uuid, ctx_vars, kernel_vars, side_vars>>

ClearWindowUsage ==
    /\ SetSched(clear_window_usage(Sched))
    /\ UNCHANGED <<policy, next_uuid, ctx_vars, kernel_vars, side_vars>>

\* AgentScheduler::new with any policy
SchedInit ==
    /\ policy \in SchedulingPolicy
    /\ ready_queue = SchedulerState_default.ready_queue
    /\ running_queue = SchedulerState_default.running_queue
    /\ waiting_queue = SchedulerState_default.waiting_queue
    /\ processes = SchedulerState_default.processes
    /\ resource_usage = SchedulerState_default.resource_usage
    /\ next_uuid = 0

(***************************************************************************)
(* The kernel's calls as actions.  run() is a loop that sleeps between its *)
(* passes, so the other calls interleave with its steps.                   *)
(***************************************************************************)
\* the limits passed to run(): None, Some(0) and Some(2)
MaxIterationsArgs == {<<>>, <<0>>, <<2>>}

\* checkpoint ids passed to restore_checkpoint: issued or not
CheckpointIdArgs == 1..MaxKernelUuid

\* what a kernel call leaves alone besides the state SetKernel writes
run_vars == <<run_pc, iteration, max_iterations>>

\* spawn_agent, up to the release of the state lock
SpawnCheck ==
    /\ spawn_pc = "idle"
    /\ LET c == Kernel_spawn_check(Kernel)
       IN IF ~c.ret.ok
          THEN UNCHANGED vars
          ELSE /\ kernel_state' = c.k.state
               /\ spawn_pc' = "spawn"
               /\ UNCHANGED <<side_vars, sched_vars, ctx_vars, running, stats, checkpoints,
                              run_vars>>

\* spawn_agent, from the choice of the pid to the return
SpawnAgent ==
    /\ spawn_pc = "spawn"
    /\ \E name \in KernelNames, task \in Tasks, priority \in Priorities, now1 \in Now :
        \E now2 \in {now1, now1 + 1} :
          LET r == Kernel_spawn_body(Kernel, name, task, priority, now1, now2)
          IN /\ now2 <= Epoch + MaxTicks
             /\ Cardinality(DOMAIN r.k.sched.processes) <= MaxProcs
             /\ r.k.next_page_id <= MaxPages
             /\ SetKernel(r.k)
             /\ clock' = now2
             /\ spawn_pc' = "idle"
             /\ UNCHANGED <<side_vars, policy, page_replacement_policy, page_size, run_vars>>

CreateCheckpoint ==
    \E pid \in PidArgs, description \in Descriptions, db_ok \in BOOLEAN :
        LET r == Kernel_create_checkpoint(Kernel, pid, description, db_ok)
        IN /\ r.k.next_uuid <= MaxKernelUuid
           /\ SetKernel(r.k)
           /\ UNCHANGED <<side_vars, spawn_pc, policy, page_replacement_policy, page_size, clock, run_vars>>

RestoreCheckpoint ==
    \E checkpoint_id \in CheckpointIdArgs, db_ok \in BOOLEAN :
        LET r == Kernel_restore_checkpoint(Kernel, checkpoint_id, db_ok)
        IN /\ Cardinality(DOMAIN r.k.sched.processes) <= MaxProcs
           /\ SetKernel(r.k)
           /\ UNCHANGED <<side_vars, spawn_pc, policy, page_replacement_policy, page_size, clock, run_vars>>

\* run, up to the release of the state lock: an error when the state is Running
RunCall ==
    /\ run_pc = "idle"
    /\ \E limit \in MaxIterationsArgs :
          LET r == Kernel_run_enter(Kernel)
          IN IF ~r.ret.ok
             THEN UNCHANGED vars
             ELSE /\ kernel_state' = r.k.state
                  /\ run_pc' = "start"
                  /\ iteration' = 0
                  /\ max_iterations' = limit
                  /\ UNCHANGED <<side_vars, spawn_pc, sched_vars, ctx_vars, running, stats, checkpoints>>

\* run: *running = true
RunSetRunning ==
    /\ run_pc = "start"
    /\ running' = TRUE
    /\ run_pc' = "loop"
    /\ UNCHANGED <<side_vars, spawn_pc, sched_vars, ctx_vars, kernel_state, stats, checkpoints,
                   iteration, max_iterations>>

\* run, the two exit tests at the head of the loop
RunCheck ==
    /\ run_pc = "loop"
    /\ run_pc' = IF ~running THEN "exit"
                 ELSE IF max_iterations # <<>> /\ iteration >= max_iterations[1]
                 THEN "exit"
                 ELSE "body"
    /\ UNCHANGED <<side_vars, spawn_pc, sched_vars, ctx_vars, kernel_state, running, stats, checkpoints,
                   iteration, max_iterations>>

\* run, the body of the loop up to the sleep (the counter is only read when
\* there is a limit)
RunIteration ==
    /\ run_pc = "body"
    /\ SetKernel(Kernel_run_iteration(Kernel))
    /\ iteration' = IF max_iterations = <<>> THEN iteration ELSE iteration + 1
    /\ run_pc' = "loop"
    /\ UNCHANGED <<side_vars, spawn_pc, policy, page_replacement_policy, page_size, clock, max_iterations>>

\* run, after the loop
RunExit ==
    /\ run_pc = "exit"
    /\ kernel_state' = "Paused"
    /\ run_pc' = "idle"
    /\ iteration' = 0
    /\ max_iterations' = <<>>
    /\ UNCHANGED <<side_vars, spawn_pc, sched_vars, ctx_vars, running, stats, checkpoints>>

\* run(None) called by a second task while the first call may be under way:
\* the same steps, without a limit
Run2Call ==
    /\ run2_pc = "idle"
    /\ LET r == Kernel_run_enter(Kernel)
       IN IF ~r.ret.ok
          THEN UNCHANGED vars
          ELSE /\ kernel_state' = r.k.state
               /\ run2_pc' = "start"
               /\ UNCHANGED <<lock_vars, sandbox_vars, spawn_pc, run_vars, sched_vars, ctx_vars,
                              running, stats, checkpoints>>

Run2SetRunning ==
    /\ run2_pc = "start"
    /\ running' = TRUE
    /\ run2_pc' = "loop"
    /\ UNCHANGED <<lock_vars, sandbox_vars, spawn_pc, run_vars, sched_vars, ctx_vars,
                   kernel_state, stats, checkpoints>>

Run2Check ==
    /\ run2_pc = "loop"
    /\ run2_pc' = IF ~running THEN "exit" ELSE "body"
    /\ UNCHANGED <<lock_vars, sandbox_vars, spawn_pc, run_vars, sched_vars, ctx_vars,
                   kernel_state, running, stats, checkpoints>>

Run2Iteration ==
    /\ run2_pc = "body"
    /\ SetKernel(Kernel_run_iteration(Kernel))
    /\ run2_pc' = "loop"
    /\ UNCHANGED <<lock_vars, sandbox_vars, spawn_pc, run_vars, policy,
                   page_replacement_policy, page_size, clock>>

Run2Exit ==
    /\ run2_pc = "exit"
    /\ kernel_state' = "Paused"
    /\ run2_pc' = "idle"
    /\ UNCHANGED <<lock_vars, sandbox_vars, spawn_pc, run_vars, sched_vars, ctx_vars,
                   running, stats, checkpoints>>

Shutdown ==
    \E pids \in key_orders(processes) :
        LET k == Kernel_shutdown(Kernel, pids)
        IN /\ k.next_uuid <= MaxKernelUuid
           /\ SetKernel(k)
           /\ UNCHANGED <<side_vars, spawn_pc, policy, page_replacement_policy, page_size, clock, run_vars>>

\* ---------------------------------------------------------------------------
\* The RwLocks of the ContextManager (context.rs 61-64) and the order in which
\* each of its calls takes and drops them.  A position of a call is the line of
\* context.rs it is about to execute.

MaxThreads == 2

Threads == 1..MaxThreads

Locks == {"pages_in_memory", "swapped_pages", "agent_pages", "token_usage"}

acquire(lock, mode, next) ==
    [op |-> "acquire", locks |-> {lock}, mode |-> mode, next |-> next]

release(locks, next) ==
    [op |-> "release", locks |-> locks, mode |-> "none", next |-> next]

\* what a call does at each position: the lock it awaits, or the guards it
\* drops, with the position it reaches; two steps where the code branches
lock_steps(pc) ==
    CASE pc = "allocate_page:100" ->
            {acquire("pages_in_memory", "write", "allocate_page:101")}
      [] pc = "allocate_page:101" ->
            {acquire("agent_pages", "write", "allocate_page:102")}
      [] pc = "allocate_page:102" ->
            {acquire("token_usage", "write", "allocate_page:114")}
      [] pc = "allocate_page:114" ->
            {release({"pages_in_memory", "agent_pages", "token_usage"}, "idle"),
             release({"pages_in_memory", "agent_pages", "token_usage"}, "evict_pages:230")}
      [] pc = "evict_pages:230" ->
            {acquire("pages_in_memory", "write", "evict_pages:231")}
      [] pc = "evict_pages:231" ->
            {acquire("swapped_pages", "write", "evict_pages:232")}
      [] pc = "evict_pages:232" ->
            {acquire("agent_pages", "write", "evict_pages:233")}
      [] pc = "evict_pages:233" ->
            {acquire("token_usage", "write", "evict_pages:282")}
      [] pc = "evict_pages:282" ->
            {release(Locks, "idle")}
      [] pc = "access_page:127" ->
            {acquire("pages_in_memory", "write", "access_page:129")}
      [] pc = "access_page:129" ->
            {release({"pages_in_memory"}, "idle"),
             release({"pages_in_memory"}, "access_page:137")}
      [] pc = "access_page:137" ->
            {acquire("swapped_pages", "write", "access_page:139")}
      [] pc = "access_page:139" ->
            {acquire("pages_in_memory", "write", "access_page:143"),
             release({"swapped_pages"}, "idle")}
      [] pc = "access_page:143" ->
            {release({"swapped_pages", "pages_in_memory"}, "idle")}
      [] pc = "get_agent_context:156" ->
            {acquire("agent_pages", "read", "get_agent_context:157")}
      [] pc = "get_agent_context:157" ->
            {acquire("pages_in_memory", "read", "get_agent_context:158")}
      [] pc = "get_agent_context:158" ->
            {acquire("swapped_pages", "read", "get_agent_context:173")}
      [] pc = "get_agent_context:173" ->
            {release({"pages_in_memory", "swapped_pages", "agent_pages"}, "idle")}
      [] pc = "get_stats:292" ->
            {acquire("pages_in_memory", "read", "get_stats:293")}
      [] pc = "get_stats:293" ->
            {acquire("swapped_pages", "read", "get_stats:294")}
      [] pc = "get_stats:294" ->
            {acquire("token_usage", "read", "get_stats:296")}
      [] pc = "get_stats:296" ->
            {release({"token_usage"}, "get_stats:325")}
      [] pc = "get_stats:325" ->
            {release({"pages_in_memory", "swapped_pages"}, "idle")}
      [] OTHER -> {}

\* the first line of each call of the ContextManager
Calls == {"allocate_page:100", "access_page:127", "get_agent_context:156", "get_stats:292"}

\* tokio::sync::RwLock: a write guard excludes every other guard, a read guard
\* excludes write guards
can_acquire(h, t, lock, mode) ==
    IF mode = "write"
    THEN h[lock] = {}
    ELSE \A g \in h[lock] : g[2] = "read"

\* a call enters the ContextManager
BeginCall(t) ==
    /\ call_pc[t] = "idle"
    /\ \E pc \in Calls : call_pc' = [call_pc EXCEPT ![t] = pc]
    /\ UNCHANGED <<held, sched_vars, ctx_vars, kernel_vars, sandbox_vars, run2_pc>>

\* .read().await / .write().await returns its guard
AcquireLock(t) ==
    \E st \in lock_steps(call_pc[t]) :
        /\ st.op = "acquire"
        /\ \E lock \in st.locks :
            /\ can_acquire(held, t, lock, st.mode)
            /\ held' = [held EXCEPT ![lock] = @ \cup {<<t, st.mode>>}]
        /\ call_pc' = [call_pc EXCEPT ![t] = st.next]
        /\ UNCHANGED <<sched_vars, ctx_vars, kernel_vars, sandbox_vars, run2_pc>>

\* drop(guard), or the guards going out of scope
ReleaseLocks(t) ==
    \E st \in lock_steps(call_pc[t]) :
        /\ st.op = "release"
        /\ held' = [lock \in Locks |->
                        IF lock \in st.locks
                        THEN {g \in held[lock] : g[1] # t}
                        ELSE held[lock]]
        /\ call_pc' = [call_pc EXCEPT ![t] = st.next]
        /\ UNCHANGED <<sched_vars, ctx_vars, kernel_vars, sandbox_vars, run2_pc>>

\* ContextManager::new: no guard is out, no call is in progress
LockInit ==
    /\ held = [lock \in Locks |-> {}]
    /\ call_pc = [t \in Threads |-> "idle"]

LockNext ==
    \E t \in Threads :
        \/ BeginCall(t)
        \/ AcquireLock(t)
        \/ ReleaseLocks(t)

\* ---------------------------------------------------------------------------
\* security.rs: security policies and the sandbox manager.  A string is the
\* sequence of its pieces, so that starts_with is the prefix relation.

MaxAudit == 2

PermissionLevel == {"Restricted", "Standard", "Unrestricted"}

FilePermission == {"None", "Read", "ReadWrite", "All"}

\* FilePermission::can_read
can_read(permission) == permission \in {"Read", "ReadWrite", "All"}

\* SecurityPolicy::default().filesystem_permissions
default_filesystem_permissions ==
    << <<(<<"/workspace">>), "ReadWrite">>, <<(<<"/tmp">>), "ReadWrite">> >>

\* a policy's path permissions with its network allowlist
AllowlistArgs ==
    {[filesystem_permissions |-> default_filesystem_permissions,
      allowed_network_addresses |-> <<>>],
     [filesystem_permissions |-> << <<(<<"/workspace">>), "None">> >>,
      allowed_network_addresses |-> << <<"api.example.com">> >>]}

\* the values of struct SecurityPolicy
SecurityPolicies ==
    {[level |-> level,
      allow_network |-> net,
      allow_filesystem |-> fs,
      allow_syscalls |-> sys,
      filesystem_permissions |-> a.filesystem_permissions,
      allowed_network_addresses |-> a.allowed_network_addresses] :
        level \in PermissionLevel, net \in BOOLEAN, fs \in BOOLEAN,
        sys \in BOOLEAN, a \in AllowlistArgs}

\* SecurityPolicy::default
SecurityPolicy_default ==
    [level |-> "Standard",
     allow_network |-> TRUE,
     allow_filesystem |-> TRUE,
     allow_syscalls |-> FALSE,
     filesystem_permissions |-> default_filesystem_permissions,
     allowed_network_addresses |-> <<>>]

\* SecurityPolicyBuilder::build
build(p) ==
    CASE p.level = "Unrestricted" ->
            [p EXCEPT !.allow_network = TRUE, !.allow_filesystem = TRUE,
                      !.allow_syscalls = TRUE]
      [] p.level = "Restricted" ->
            [p EXCEPT !.allow_network = FALSE, !.allow_filesystem = FALSE,
                      !.allow_syscalls = FALSE]
      [] OTHER -> p

\* SecurityPolicy::builder().permission_level(..).allow_network(..)
\* .allow_filesystem(..).allow_syscalls(..).build()
builder(level, net, fs, sys) ==
    build([SecurityPolicy_default EXCEPT !.level = level, !.allow_network = net,
                                         !.allow_filesystem = fs, !.allow_syscalls = sys])

\* the policies given to create_sandbox: what the builder makes, and two
\* struct literals whose toggles disagree with their level
PolicyArgs ==
    {builder(level, net, fs, sys) :
        level \in PermissionLevel, net \in BOOLEAN, fs \in BOOLEAN, sys \in BOOLEAN}
    \cup {[level |-> "Unrestricted", allow_network |-> FALSE,
           allow_filesystem |-> FALSE, allow_syscalls |-> FALSE,
           filesystem_permissions |-> << <<(<<"/workspace">>), "None">> >>,
           allowed_network_addresses |-> <<>>],
          [level |-> "Restricted", allow_network |-> TRUE,
           allow_filesystem |-> TRUE, allow_syscalls |-> TRUE,
           filesystem_permissions |-> default_filesystem_permissions,
           allowed_network_addresses |-> << <<"api.example.com">> >>]}

NetworkAccess(address) == [kind |-> "NetworkAccess", arg |-> address]
FileAccess(path) == [kind |-> "FileAccess", arg |-> path]
SystemCall(syscall) == [kind |-> "SystemCall", arg |-> syscall]

SecurityOperations ==
    {NetworkAccess(<<"api.example.com">>),
     FileAccess(<<"/workspace", "/notes.txt">>),
     FileAccess(<<"/etc", "/passwd">>),
     SystemCall(<<"execve">>)}

SecurityViolation(violation_type, message, severity) ==
    [violation_type |-> violation_type, message |-> message, severity |-> severity]

\* Result<(), SecurityViolation>
Allowed == [ok |-> TRUE]
Denied(violation) == [ok |-> FALSE, violation |-> violation]

\* str::starts_with
starts_with(s, pattern) ==
    /\ Len(pattern) <= Len(s)
    /\ SubSeq(s, 1, Len(pattern)) = pattern

\* SecurityPolicy::check_path_permission
check_path_permission(p, path) ==
    IF \E i \in 1..Len(p.filesystem_permissions) :
           /\ starts_with(path, p.filesystem_permissions[i][1])
           /\ can_read(p.filesystem_permissions[i][2])
    THEN Allowed
    ELSE Denied(SecurityViolation("PathAccess",
                                  <<"Path '">> \o path \o <<"' is not allowed">>,
                                  "Medium"))

\* SecurityPolicy::check_standard_permission
check_standard_permission(p, operation) ==
    CASE operation.kind = "NetworkAccess" ->
            IF p.allow_network
            THEN Allowed
            ELSE Denied(SecurityViolation("NetworkAccess",
                     <<"Network access to '">> \o operation.arg
                         \o <<"' is not allowed in standard mode">>,
                     "Medium"))
      [] operation.kind = "FileAccess" ->
            IF p.allow_filesystem
            THEN check_path_permission(p, operation.arg)
            ELSE Denied(SecurityViolation("PathAccess",
                     <<"File system access to '">> \o operation.arg
                         \o <<"' is not allowed in standard mode">>,
                     "High"))
      [] operation.kind = "SystemCall" ->
            IF p.allow_syscalls
            THEN Allowed
            ELSE Denied(SecurityViolation("SystemCall",
                     <<"System call '">> \o operation.arg
                         \o <<"' is not allowed in standard mode">>,
                     "High"))

\* SecurityPolicy::check_restricted_permission
check_restricted_permission(p, operation) ==
    Denied(SecurityViolation(
        CASE operation.kind = "NetworkAccess" -> "NetworkAccess"
          [] operation.kind = "FileAccess" -> "PathAccess"
          [] operation.kind = "SystemCall" -> "SystemCall",
        <<"All operations are blocked in restricted mode">>,
        "Critical"))

\* a check that looks at the toggles whatever the level
check_permission_by_toggles(p, operation) ==
    check_standard_permission(p, operation)

\* SecurityPolicy::check_permission
check_permission(p, operation) ==
    CASE p.level = "Unrestricted" -> Allowed
      [] p.level = "Standard" -> check_standard_permission(p, operation)
      [] p.level = "Restricted" -> check_restricted_permission(p, operation)

\* the SandboxManager as one value
Sandbox == [sandboxes |-> sandboxes, audit_log |-> audit_log]

SetSandbox(m) ==
    /\ sandboxes' = m.sandboxes
    /\ audit_log' = m.audit_log

\* SandboxManager::create_sandbox
create_sandbox(m, pid, p) ==
    [m EXCEPT !.sandboxes = [q \in DOMAIN m.sandboxes \cup {pid} |->
                                IF q = pid THEN [policy |-> p] ELSE m.sandboxes[q]]]

\* SandboxManager::get_sandbox
get_sandbox(m, pid) ==
    IF pid \in DOMAIN m.sandboxes THEN <<m.sandboxes[pid]>> ELSE <<>>

\* a log_audit that keeps only the newest entry
log_audit_overwrite(m, pid, operation, violation) ==
    [m EXCEPT !.audit_log =
        <<[agent_pid |-> pid,
           action_type |-> <<"security_violation:", operation.kind>>,
           input_data |-> [operation |-> operation],
           output_data |-> [violation |-> violation.message],
           reasoning |-> <<>>,
           duration_ms |-> 0]>>]

\* SandboxManager::log_audit
log_audit(m, pid, operation, violation) ==
    LET action_type == CASE operation.kind = "NetworkAccess" -> "network_access"
                         [] operation.kind = "FileAccess" -> "file_access"
                         [] operation.kind = "SystemCall" -> "system_call"
        log == [agent_pid |-> pid,
                action_type |-> <<"security_violation:", action_type>>,
                input_data |-> [operation |-> operation],
                output_data |-> [violation |-> violation.message],
                reasoning |-> <<>>,
                duration_ms |-> 0]
    IN [m EXCEPT !.audit_log = Append(@, log)]

\* a check_operation that refuses, and logs, the operations of a pid without a
\* sandbox
check_operation_default_deny(m, pid, operation) ==
    LET result == IF pid \in DOMAIN m.sandboxes
                  THEN check_permission(m.sandboxes[pid].policy, operation)
                  ELSE check_restricted_permission(SecurityPolicy_default, operation)
    IN IF ~result.ok
       THEN [m |-> log_audit(m, pid, operation, result.violation), ret |-> result]
       ELSE [m |-> m, ret |-> result]

\* SandboxManager::check_operation: the manager after the call and its Result
check_operation(m, pid, operation) ==
    IF pid \in DOMAIN m.sandboxes
    THEN LET result == check_permission(m.sandboxes[pid].policy, operation)
         IN IF ~result.ok
            THEN [m |-> log_audit(m, pid, operation, result.violation), ret |-> result]
            ELSE [m |-> m, ret |-> result]
    ELSE [m |-> m, ret |-> Allowed]

\* the pids that get a sandbox, and the pids that ask
SandboxPids == {1, 2}
OperationPids == {1, 2, 3}

CreateSandbox ==
    \E pid \in SandboxPids, p \in PolicyArgs :
        /\ SetSandbox(create_sandbox(Sandbox, pid, p))
        /\ UNCHANGED <<sched_vars, ctx_vars, kernel_vars, lock_vars, run2_pc>>

CheckOperation ==
    \E pid \in OperationPids, operation \in SecurityOperations :
        LET r == check_operation(Sandbox, pid, operation)
        IN /\ Len(r.m.audit_log) <= MaxAudit
           /\ SetSandbox(r.m)
           /\ UNCHANGED <<sched_vars, ctx_vars, kernel_vars, lock_vars, run2_pc>>

\* SandboxManager::new
SandboxInit ==
    /\ sandboxes = <<>>
    /\ audit_log = <<>>

SandboxNext ==
    \/ CreateSandbox
    \/ CheckOperation

\* AgentOSKernel::new
KernelInit ==
    /\ kernel_state = "Initializing"
    /\ running = FALSE
    /\ stats = KernelStats_default
    /\ checkpoints = <<>>
    /\ run_pc = "idle"
    /\ iteration = 0
    /\ max_iterations = <<>>
    /\ spawn_pc = "idle"
    /\ run2_pc = "idle"

\* the scheduler alone, its context manager as the kernel configures it
SchedSpecInit ==
    /\ LockInit
    /\ SandboxInit
    /\ SchedInit
    /\ CtxInit /\ page_replacement_policy = "LruImportance"
    /\ page_size = DefaultPageSize
    /\ KernelInit

\* the context manager alone
CtxSpecInit ==
    /\ LockInit
    /\ SandboxInit
    /\ CtxInit /\ page_size = DefaultPageSize
    /\ SchedInit /\ policy = "Priority"
    /\ KernelInit

\* the context manager alone, for sequences of allocate_page calls
CtxAllocSpecInit ==
    /\ LockInit
    /\ SandboxInit
    /\ CtxInit /\ page_size = DefaultPageSize
    /\ SchedInit /\ policy = "Priority"
    /\ KernelInit

\* test_context_eviction: the ContextManager the test builds
EvictionTestSpecInit ==
    /\ LockInit
    /\ SandboxInit
    /\ CtxInit /\ page_replacement_policy = "LruImportance"
    /\ page_size = TestPageSize
    /\ SchedInit /\ policy = "Priority"
    /\ KernelInit

\* a ContextManager with room for four resident pages
CacheOrderSpecInit ==
    /\ LockInit
    /\ SandboxInit
    /\ CtxInit /\ page_replacement_policy = "LruImportance"
    /\ page_size = TestPageSize
    /\ SchedInit /\ policy = "Priority"
    /\ KernelInit

CacheOrderNext ==
    \/ AllocateTypedPage
    \/ AccessPage

\* allocate_page with contents of any size, larger than the window among them
CtxAllocNext ==
    \/ AllocatePage
    \/ AllocateOversizedPage

\* the kernel with the scheduler and the context manager it builds
KernelSpecInit ==
    /\ LockInit
    /\ SandboxInit
    /\ KernelInit
    /\ SchedInit /\ policy = "Priority"
    /\ CtxInit /\ page_replacement_policy = "LruImportance"
    /\ page_size = DefaultPageSize

KernelNext ==
    \/ SpawnCheck
    \/ SpawnAgent
    \/ CreateCheckpoint
    \/ RestoreCheckpoint
    \/ RunCall
    \/ RunSetRunning
    \/ RunCheck
    \/ RunIteration
    \/ RunExit
    \/ Shutdown

\* two tasks that call run(), with spawn_agent and shutdown
ConcurrentRunNext ==
    \/ SpawnCheck
    \/ SpawnAgent
    \/ RunCall
    \/ RunSetRunning
    \/ RunCheck
    \/ RunIteration
    \/ RunExit
    \/ Run2Call
    \/ Run2SetRunning
    \/ Run2Check
    \/ Run2Iteration
    \/ Run2Exit
    \/ Shutdown

SchedNext ==
    \/ AddProcess
    \/ Schedule
    \/ RequestResources
    \/ SuspendProcess
    \/ WaitProcess
    \/ TerminateProcess
    \/ ResumeProcess
    \/ ClearWindowUsage

\* the locks of one ContextManager shared by concurrent calls
LockSpecInit ==
    /\ LockInit
    /\ SandboxInit
    /\ CtxInit /\ page_replacement_policy = "LruImportance"
    /\ page_size = DefaultPageSize
    /\ SchedInit /\ policy = "Priority"
    /\ KernelInit

\* concurrent calls of the context manager, lock by lock
LockSpec == LockSpecInit /\ [][LockNext]_vars

\* the sandbox manager alone
SandboxSpecInit ==
    /\ SandboxInit
    /\ LockInit
    /\ CtxInit /\ page_replacement_policy = "LruImportance"
    /\ page_size = DefaultPageSize
    /\ SchedInit /\ policy = "Priority"
    /\ KernelInit

\* the sandbox manager driven by any sequence of calls
SandboxSpec == SandboxSpecInit /\ [][SandboxNext]_vars

\* the scheduler driven by any sequence of calls
SchedSpec == SchedSpecInit /\ [][SchedNext]_vars

\* the context manager driven by any sequence of calls
CtxSpec == CtxSpecInit /\ [][CtxNext]_vars

\* pages of several types allocated and accessed, then assembled
CacheOrderSpec == CacheOrderSpecInit /\ [][CacheOrderNext]_vars

\* test_context_eviction up to its assertion
EvictionTestSpec == EvictionTestSpecInit /\ [][TestAllocatePage]_vars

\* the context manager driven by any sequence of allocate_page calls
CtxAllocSpec == CtxAllocSpecInit /\ [][CtxAllocNext]_vars

\* the calls that run beside the main loop: spawn_agent, run and shutdown
RunLoopNext ==
    \/ SpawnCheck
    \/ SpawnAgent
    \/ RunCall
    \/ RunSetRunning
    \/ RunCheck
    \/ RunIteration
    \/ RunExit
    \/ Shutdown

\* the task that executes run() is scheduled fairly: each of its steps is
\* taken when it stays possible.  The loop body can always be taken and is
\* the only step that leaves the position "body", so its fairness is that the
\* task does not stay there for ever.
RunLoopFairness ==
    /\ WF_vars(RunSetRunning)
    /\ WF_vars(RunCheck)
    /\ WF_vars(RunExit)
    /\ []<>(run_pc # "body")

\* the main loop beside spawn_agent and shutdown, under fair scheduling
RunLoopSpec == KernelSpecInit /\ [][RunLoopNext]_vars /\ RunLoopFairness

\* the kernel driven by any interleaving of calls
KernelSpec == KernelSpecInit /\ [][KernelNext]_vars

(***************************************************************************)
(* Claims about the scheduler.                                             *)
(***************************************************************************)
\* the number of queue slots (over the three queues) that hold pid
queue_slots(s, pid) ==
    count(s.ready_queue, pid) + count(s.running_queue, pid) + count(s.waiting_queue, pid)

in_queue(q, pid) == count(q, pid) > 0

\* C1: queue exclusivity: in every reachable state every pid occurs in at most
\* one of the ready, running and waiting queues, and at most once in it.
C1_QueueExclusivity ==
    \A pid \in DOMAIN processes : queue_slots(Sched, pid) <= 1

\* C2: in every reachable state the recorded state of a process is Running
\* if and only if its pid is in the running queue.
C2_RunningIffInRunningQueue ==
    \A pid \in DOMAIN processes :
        (processes[pid].state = "Running") <=> in_queue(running_queue, pid)

\* C3: schedule() never returns a pid that is already in the running queue, and
\* the running queue never holds the same pid twice.
C3_AtMostOneRunPerPid ==
    /\ LET r == schedule(Sched, policy)
       IN r.ret # <<>> =>
              ~in_queue(check_preemption(Sched).running_queue, r.ret[1].pid)
    /\ \A pid \in DOMAIN processes : count(running_queue, pid) <= 1

\* C4: preemption after refusal: when request_resources(pid, n) is refused for
\* a pid in the running queue because window_tokens + n passes the threshold,
\* the preemption step of the next schedule() takes pid out of running, puts
\* it into ready and sets its state to Ready.
C4_PreemptionAfterRefusal ==
    \A pid \in DOMAIN processes, n \in TokensNeeded :
        LET r == request_resources(Sched, pid, n)
            s == check_preemption(r.s)
        IN (in_queue(running_queue, pid) /\ ~r.ret) =>
              /\ ~in_queue(s.running_queue, pid)
              /\ in_queue(s.ready_queue, pid)
              /\ s.processes[pid].state = "Ready"

\* the index of the ready process schedule() is to return under the Priority
\* policy: the first one among those of the greatest priority
best_priority_index(s) ==
    CHOOSE i \in 1..Len(s.ready_queue) :
        /\ \A j \in 1..Len(s.ready_queue) :
              s.processes[s.ready_queue[j]].priority
                  <= s.processes[s.ready_queue[i]].priority
        /\ \A j \in 1..(i - 1) :
              s.processes[s.ready_queue[j]].priority
                  < s.processes[s.ready_queue[i]].priority

\* C5: under the Priority policy schedule() returns the ready process of the
\* greatest priority (the earliest queued among equals), whatever the
\* priorities are, and returns none only when the ready queue is empty.
C5_PrioritySelection ==
    policy = "Priority" =>
        LET s == check_preemption(Sched)
            r == schedule(Sched, policy)
        IN IF s.ready_queue = <<>>
           THEN r.ret = <<>>
           ELSE /\ r.ret # <<>>
                /\ r.ret[1].pid = s.ready_queue[best_priority_index(s)]

\* C17: request_resources(pid, n) returns true exactly when pid is registered
\* and window_tokens + n <= preemption_threshold (n small enough for the sum
\* to fit a u64); when it returns true, window_tokens and total_tokens of pid
\* grow by n and api_calls by 1; when it returns false, every pid's resource
\* usage is unchanged.
C17_RequestResources ==
    \A pid \in PidArgs, n \in TokensNeeded \cup {0, 1} :
        LET r == request_resources(Sched, pid, n)
        IN /\ r.ret <=> (/\ pid \in DOMAIN processes
                         /\ resource_usage[pid].window_tokens + n
                                <= preemption_threshold)
           /\ r.ret =>
                  /\ r.s.resource_usage[pid].window_tokens
                         = resource_usage[pid].window_tokens + n
                  /\ r.s.resource_usage[pid].total_tokens
                         = resource_usage[pid].total_tokens + n
                  /\ r.s.resource_usage[pid].api_calls
                         = resource_usage[pid].api_calls + 1
                  /\ \A p \in DOMAIN resource_usage \ {pid} :
                         r.s.resource_usage[p] = resource_usage[p]
           /\ ~r.ret => r.s.resource_usage = resource_usage

\* a request was granted and has filled the window of a pid, beside a pid
\* whose window is empty
C17_Witness ==
    \E pid, p \in DOMAIN resource_usage :
        /\ resource_usage[pid].api_calls >= 1
        /\ resource_usage[pid].window_tokens = preemption_threshold
        /\ resource_usage[p].window_tokens = 0

\* whether pid is Terminated and in no queue in the scheduler state s
terminated(s, pid) ==
    s.processes[pid].state = "Terminated" /\ queue_slots(s, pid) = 0

\* C18: Terminated is terminal: after terminate_process(pid) the pid is in none
\* of the three queues and its state is Terminated, and no later wait_process,
\* resume_process, suspend_process or schedule call changes its state or puts
\* it back into a queue.
C18_TerminatedIsTerminal ==
    \A pid \in DOMAIN processes :
        /\ terminated(terminate_process(Sched, pid), pid)
        /\ processes[pid].state = "Terminated" =>
               /\ terminated(Sched, pid)
               /\ terminated(wait_process(Sched, pid), pid)
               /\ terminated(resume_process(Sched, pid), pid)
               /\ \A cp \in BOOLEAN :
                      terminated(suspend_process(Sched, pid, cp, fresh_uuid).s, pid)
               /\ terminated(schedule(Sched, policy).s, pid)

(***************************************************************************)
(* Claims about the context manager.                                       *)
(***************************************************************************)
\* C6: token accounting: after every completed allocate_page, access_page and
\* eviction, token_usage is the sum of token_count over the resident pages.
C6_TokenAccounting == token_usage = sum_tokens(pages_in_memory)

\* C7: assembly token cap: for every get_agent_context(pid, flag) the pages
\* whose messages are returned hold at most max_context_tokens tokens.
C7_AssemblyTokenCap ==
    \A agent_pid \in AgentPids, optimize_for_cache \in BOOLEAN :
        sum_tokens(context_pages(Ctx, agent_pid, optimize_for_cache))
            <= max_context_tokens

\* C8: allocation visibility: right after allocate_page(pid, content, ...)
\* returned id X, the page list of pid holds X and get_agent_context(pid, _)
\* holds a message carrying the content.
C8_AllocationVisibility ==
    \A agent_pid \in AgentPids, content \in Contents, importance \in Importances,
       page_type \in PageTypeArgs, now \in Now, optimize_for_cache \in BOOLEAN :
        LET r == allocate_page(Ctx, page_replacement_policy, agent_pid, content,
                               importance, page_type, fresh_page_id, now)
            context == get_agent_context(r.c, agent_pid, optimize_for_cache)
        IN /\ agent_pid \in DOMAIN r.c.agent_pages
           /\ in_queue(r.c.agent_pages[agent_pid], r.ret)
           /\ \E i \in 1..Len(context) : context[i].content = content

\* allocate_page: whether the call with this content runs evict_pages
should_evict(c, content) ==
    usize_gt(c.token_usage + estimate_tokens(content), max_context_tokens)

\* C11: eviction postcondition: when an eviction pass triggered by
\* allocate_page has finished, token_usage <= max_context_tokens * 90 / 100 or
\* the resident tier is empty.
C11_EvictionPostcondition ==
    \A agent_pid \in AgentPids, content \in Contents, importance \in Importances,
       page_type \in PageTypeArgs, now \in Now :
        LET r == allocate_page(Ctx, page_replacement_policy, agent_pid, content,
                               importance, page_type, fresh_page_id, now)
        IN should_evict(Ctx, content) =>
               \/ ~usize_gt(r.c.token_usage, (max_context_tokens * 90) \div 100)
               \/ r.c.pages_in_memory = <<>>

\* an eviction pass has run and has left pages in the resident tier
C11_Witness ==
    /\ swapped_pages # <<>>
    /\ pages_in_memory # <<>>
    /\ ~usize_gt(token_usage, (max_context_tokens * 90) \div 100)

\* C12: eviction never takes token_usage below zero: no victim's token_count
\* is larger than the token_usage it is subtracted from (a usize that wrapped
\* has a negative representative), also for a page that was evicted, faulted
\* back in by access_page and evicted again.
C12_NoUnderflow ==
    /\ token_usage >= 0
    /\ \A agent_pid \in AgentPids, content \in Contents \cup OversizedContents,
          importance \in Importances, page_type \in PageTypeArgs, now \in Now :
           allocate_page(Ctx, page_replacement_policy, agent_pid, content,
                         importance, page_type, fresh_page_id, now).c.token_usage >= 0

\* get_stats: the current_usage it reports
current_usage(c) == c.token_usage

\* C13: after any sequence of allocate_page calls (any page sizes, importances
\* and agents) the current_usage of get_stats is at most max_context_tokens.
C13_UsageWithinWindow == ~usize_gt(current_usage(Ctx), max_context_tokens)

\* allocations have filled the window and an eviction pass has run
C13_Witness ==
    /\ swapped_pages # <<>>
    /\ current_usage(Ctx) > 0
    /\ next_page_id >= 3

\* get_stats: the pages_swapped it reports
pages_swapped(c) == Cardinality(DOMAIN c.swapped_pages)

\* C14: eviction under pressure: with max_context_tokens = 1000 and page_size =
\* 500, after the 10 pages of about 200 characters are allocated for one agent,
\* at least one page is held in the swap tier.
C14_EvictionUnderPressure ==
    next_page_id = TestPages => pages_swapped(Ctx) >= 1

\* C15: index integrity: every PageId in an agent's page list refers to a page
\* held in the resident tier or in the swap tier, also after an insertion that
\* found the resident tier at its capacity.
C15_IndexIntegrity ==
    \A agent_pid \in DOMAIN agent_pages :
        \A i \in 1..Len(agent_pages[agent_pid]) :
            \/ lru_contains(pages_in_memory, agent_pages[agent_pid][i])
            \/ agent_pages[agent_pid][i] \in DOMAIN swapped_pages

\* C16: after an access_page(id) that returns Some (a resident hit or a page
\* fault from swap) id is in the resident tier and not in the swap tier;
\* access_page on an id in neither tier returns None and changes nothing.
C16_AccessPage ==
    \A page_id \in 1..fresh_page_id, now \in Now :
        LET r == access_page(Ctx, page_id, now)
        IN /\ r.ret # <<>> =>
                  /\ r.ret[1].id = page_id
                  /\ lru_contains(r.c.pages_in_memory, page_id)
                  /\ page_id \notin DOMAIN r.c.swapped_pages
           /\ (~lru_contains(pages_in_memory, page_id)
                  /\ page_id \notin DOMAIN swapped_pages) =>
                  r.ret = <<>> /\ r.c = Ctx

\* a page fault has brought a page back: it is resident, in no page list (the
\* eviction took its id out), and another page is in the swap tier
C16_Witness ==
    /\ swapped_pages # <<>>
    /\ \E i \in 1..Len(pages_in_memory) :
          \A agent_pid \in DOMAIN agent_pages :
              ~in_queue(agent_pages[agent_pid], pages_in_memory[i].id)

(***************************************************************************)
(* Claims about the kernel's life cycle.                                   *)
(***************************************************************************)
\* the moves Initializing -> Running <-> Paused -> ShuttingDown -> Shutdown,
\* a shutdown from any state before ShuttingDown, and no move at all
lifecycle_step(a, b) ==
    \/ a = b
    \/ a = "Initializing" /\ b = "Running"
    \/ a = "Running" /\ b = "Paused"
    \/ a = "Paused" /\ b = "Running"
    \/ a \in {"Initializing", "Running", "Paused"} /\ b \in {"ShuttingDown", "Shutdown"}
    \/ a = "ShuttingDown" /\ b = "Shutdown"

\* C19: kernel lifecycle: the kernel state only moves along Initializing ->
\* Running <-> Paused -> ShuttingDown -> Shutdown, and Shutdown is final: no
\* call of spawn_agent, create_checkpoint, restore_checkpoint, run or shutdown
\* changes it.
C19_KernelLifecycle == [][lifecycle_step(kernel_state, kernel_state')]_vars

\* C20: run(Some(n)) called on a kernel on which spawn_agent has succeeded
\* (kernel state Running, no run loop active) is accepted: it sets the state
\* Running and goes on to its loop, to return Ok and leave the state Paused.
C20_RunAfterSpawn ==
    (kernel_state = "Running" /\ run_pc = "idle" /\ stats.total_agents >= 1) =>
        LET r == Kernel_run_enter(Kernel)
        IN r.ret.ok /\ r.k.state = "Running"

(***************************************************************************)
(* Claims about the kernel's checkpoints.                                  *)
(***************************************************************************)
\* C9: checkpoint round-trip: for a Ready or Running pid, the id that
\* create_checkpoint(pid, d) returns is a key of the stored checkpoints, and
\* restore_checkpoint of it succeeds and registers a process equal in name and
\* priority to the suspended one.
C9_CheckpointRoundTrip ==
    \A pid \in DOMAIN processes, description \in Descriptions :
        LET r == Kernel_create_checkpoint(Kernel, pid, description, TRUE)
            q == Kernel_restore_checkpoint(r.k, r.ret.value, TRUE)
        IN (processes[pid].state \in {"Ready", "Running"} /\ r.ret.ok) =>
               /\ r.ret.value \in DOMAIN r.k.checkpoints
               /\ q.ret.ok
               /\ q.k.sched.processes[q.ret.value].name = processes[pid].name
               /\ q.k.sched.processes[q.ret.value].priority = processes[pid].priority

\* C10: checkpointing is non-destructive on failure: when create_checkpoint is
\* called for a process of the running queue and the storage write fails, the
\* call returns an error and no id, and the process is as it was and still in
\* the running queue.
C10_CheckpointNonDestructive ==
    \A pid \in DOMAIN processes, description \in Descriptions :
        LET r == Kernel_create_checkpoint(Kernel, pid, description, FALSE)
        IN (kernel_state = "Running" /\ in_queue(running_queue, pid)) =>
               /\ ~r.ret.ok
               /\ r.ret.value = None
               /\ r.k.sched.processes[pid] = processes[pid]
               /\ in_queue(r.k.sched.running_queue, pid)

(***************************************************************************)
(* Claims about the locks of the context manager.                          *)
(***************************************************************************)
\* the declared order: resident set, swap set, agent index, token usage
lock_rank(lock) ==
    CASE lock = "pages_in_memory" -> 1
      [] lock = "swapped_pages" -> 2
      [] lock = "agent_pages" -> 3
      [] lock = "token_usage" -> 4

holds(t, lock) == \E g \in held[lock] : g[1] = t

\* the call of t awaits a lock and cannot have it
blocked(t) ==
    /\ lock_steps(call_pc[t]) # {}
    /\ \A st \in lock_steps(call_pc[t]) :
        /\ st.op = "acquire"
        /\ \A lock \in st.locks : ~can_acquire(held, t, lock, st.mode)

\* the call of t awaits a lock that a guard of u keeps from it
waits_for(t, u) ==
    \E st \in lock_steps(call_pc[t]) : \E lock \in st.locks :
        /\ st.op = "acquire"
        /\ \E g \in held[lock] : g[1] = u /\ (st.mode = "write" \/ g[2] = "write")

\* a set of calls each awaiting a lock held within the set: none ever returns
deadlocked ==
    \E T \in SUBSET Threads :
        /\ T # {}
        /\ \A t \in T : blocked(t) /\ \A u \in Threads : waits_for(t, u) => u \in T

\* every lock a call awaits ranks above every lock it holds
lock_order ==
    \A t \in Threads : \A st \in lock_steps(call_pc[t]) : \A lock \in st.locks :
        st.op = "acquire" =>
            \A h \in Locks : holds(t, h) => lock_rank(h) < lock_rank(lock)

\* C21: the context manager is deadlock-free: in every interleaving of
\* allocate_page (with its eviction), access_page, get_agent_context and
\* get_stats, each call takes the four locks in the order resident set, swap
\* set, agent index, token usage, and no set of calls waits on one another for
\* ever.
C21_DeadlockFreedom == lock_order /\ ~deadlocked

(***************************************************************************)
(* Claims about the sandbox.                                               *)
(***************************************************************************)
\* C22: the sandbox levels are honoured: a policy of level Restricted denies
\* every operation, with severity Critical, and a policy of level Unrestricted
\* allows every operation, whatever its toggles and its allow-lists are; so
\* does check_operation for the pids whose sandbox has such a policy.
C22_SandboxLevels ==
    /\ \A p \in SecurityPolicies, operation \in SecurityOperations :
        LET result == check_permission(p, operation)
        IN /\ p.level = "Restricted" =>
                ~result.ok /\ result.violation.severity = "Critical"
           /\ p.level = "Unrestricted" => result.ok
    /\ \A pid \in DOMAIN sandboxes, operation \in SecurityOperations :
        LET r == check_operation(Sandbox, pid, operation)
        IN /\ sandboxes[pid].policy.level = "Restricted" =>
                ~r.ret.ok /\ r.ret.violation.severity = "Critical"
           /\ sandboxes[pid].policy.level = "Unrestricted" => r.ret.ok

\* a Restricted sandbox whose toggles are all on has had an operation denied,
\* and an Unrestricted sandbox has its toggles off
C22_Witness ==
    \E pid \in DOMAIN sandboxes, other \in DOMAIN sandboxes :
        /\ sandboxes[pid].policy.level = "Restricted"
        /\ sandboxes[pid].policy.allow_syscalls
        /\ \E i \in 1..Len(audit_log) : audit_log[i].agent_pid = pid
        /\ sandboxes[other].policy.level = "Unrestricted"
        /\ ~sandboxes[other].policy.allow_network

(***************************************************************************)
(* Claims about the kernel's shutdown.                                     *)
(***************************************************************************)
\* C23: shutdown is final: once shutdown() has returned the kernel state is
\* Shutdown and stays Shutdown while a run() loop that was executing when
\* shutdown() cleared the running flag notices the flag and exits.
C23_ShutdownIsFinal ==
    [][(kernel_state = "Shutdown" /\ run_pc # "idle") => kernel_state' = "Shutdown"]_vars

\* the postcondition of shutdown() for the processes that were Ready or Running
shutdown_suspends(k, k2) ==
    /\ k2.sched.ready_queue = <<>>
    /\ k2.sched.running_queue = <<>>
    /\ \A pid \in DOMAIN k.sched.processes :
        k.sched.processes[pid].state \in {"Ready", "Running"} =>
            /\ k2.sched.processes[pid].state = "Suspended"
            /\ in_queue(k2.sched.waiting_queue, pid)
            /\ k2.sched.processes[pid].checkpoint_id # None

\* C24: shutdown suspends everything: when shutdown() has returned no process
\* is in the ready or the running queue, and every process that was Ready or
\* Running is Suspended, in the waiting queue, and carries a checkpoint id;
\* this holds also for an agent whose spawn_agent call was in progress when
\* shutdown() ran.
C24_ShutdownSuspendsAll ==
    /\ \A pids \in key_orders(processes) :
        shutdown_suspends(Kernel, Kernel_shutdown(Kernel, pids))
    /\ kernel_state = "Shutdown" =>
        /\ ready_queue = <<>>
        /\ running_queue = <<>>
        /\ \A pid \in DOMAIN processes : processes[pid].state \notin {"Ready", "Running"}

(***************************************************************************)
(* Claims about suspend_process, wait_process and resume_process.          *)
(***************************************************************************)
\* C25: suspend_process(pid, cp) on a process that exists and is Ready or
\* Running leaves it Suspended, in the waiting queue exactly once and in
\* neither the ready nor the running queue; it returns a checkpoint id no
\* process carried before and stores it in the process when cp is true, and
\* returns none and stores nothing when cp is false.  In every other pre-state
\* it returns none and leaves the queues and the process table unchanged.
C25_SuspendProcess ==
    \A pid \in PidArgs, cp \in BOOLEAN :
        LET r == suspend_process(Sched, pid, cp, fresh_uuid)
        IN IF pid \in DOMAIN processes /\ processes[pid].state \in {"Ready", "Running"}
           THEN /\ r.s.processes[pid].state = "Suspended"
                /\ count(r.s.waiting_queue, pid) = 1
                /\ ~in_queue(r.s.ready_queue, pid)
                /\ ~in_queue(r.s.running_queue, pid)
                /\ cp => /\ r.ret # None
                         /\ r.s.processes[pid].checkpoint_id = r.ret
                         /\ \A q \in DOMAIN processes : processes[q].checkpoint_id # r.ret
                /\ ~cp => /\ r.ret = None
                          /\ r.s.processes[pid].checkpoint_id = processes[pid].checkpoint_id
           ELSE /\ r.ret = None
                /\ r.s = Sched

\* a process that was scheduled has been suspended with a checkpoint
C25_Witness ==
    \E pid \in DOMAIN processes :
        /\ processes[pid].state = "Suspended"
        /\ processes[pid].checkpoint_id # None
        /\ waiting_queue = <<pid>>
        /\ \E q \in DOMAIN processes : in_queue(running_queue, q)

\* C26: after wait_process(pid, reason) on a registered Ready or Running
\* process the state of the process is Waiting, the pid is still in the process
\* table, and the pid is not in the ready queue.
C26_WaitProcess ==
    \A pid \in DOMAIN processes :
        processes[pid].state \in {"Ready", "Running"} =>
            LET s == wait_process(Sched, pid)
            IN /\ pid \in DOMAIN s.processes
               /\ s.processes[pid].state = "Waiting"
               /\ ~in_queue(s.ready_queue, pid)

\* C27: resume_process(pid) on a Suspended or Waiting process sets its state
\* to Ready, removes it from the waiting queue and leaves it in the ready queue
\* exactly once and in no other queue; for a process in another state and for
\* an unknown pid it changes nothing.
C27_ResumeProcess ==
    \A pid \in PidArgs :
        LET s == resume_process(Sched, pid)
        IN IF pid \in DOMAIN processes /\ processes[pid].state \in {"Suspended", "Waiting"}
           THEN /\ s.processes[pid].state = "Ready"
                /\ ~in_queue(s.waiting_queue, pid)
                /\ count(s.ready_queue, pid) = 1
                /\ ~in_queue(s.running_queue, pid)
           ELSE s = Sched

(***************************************************************************)
(* Claims about the two tiers of the context manager.                      *)
(***************************************************************************)
\* the pages of the assembled context hold the page, or the token cap has cut
\* the assembly short
contributes(c, page, optimize_for_cache) ==
    LET pages == context_pages(c, page.agent_pid, optimize_for_cache)
    IN \/ \E i \in 1..Len(pages) : pages[i].id = page.id
       \/ sum_tokens(pages) > max_context_tokens

\* C28: get_agent_context collects the agent's pages from both tiers: a page
\* that eviction has moved to the swap tier, and a page that access_page has
\* faulted back into the resident tier, contributes its message to the
\* assembled context of its agent unless the token cap has cut the assembly.
C28_ContextFromBothTiers ==
    \A optimize_for_cache \in BOOLEAN :
        /\ \A page_id \in DOMAIN swapped_pages :
            contributes(Ctx, swapped_pages[page_id], optimize_for_cache)
        /\ \A i \in 1..Len(pages_in_memory) :
            contributes(Ctx, pages_in_memory[i], optimize_for_cache)

\* C29: the status of a page follows the tier that holds it: in every
\* reachable state every page of the swap tier has status Swapped and every
\* page of the resident tier has status InMemory.
C29_StatusFollowsTier ==
    /\ \A page_id \in DOMAIN swapped_pages : swapped_pages[page_id].status = "Swapped"
    /\ \A i \in 1..Len(pages_in_memory) : pages_in_memory[i].status = "InMemory"

(***************************************************************************)
(* Claims about spawn_agent.                                               *)
(***************************************************************************)
\* C30: spawn_agent succeeds only when the kernel state is Initializing or
\* Running, and then sets the state Running; when the state is Paused,
\* ShuttingDown or Shutdown it returns an error and leaves the kernel state,
\* the scheduler's process table and queues, the context pages and
\* total_agents unchanged.
C30_SpawnAgentStates ==
    \A st \in {kernel_state, "Paused", "ShuttingDown", "Shutdown"},
       name \in KernelNames, task \in Tasks, priority \in Priorities :
        LET k == [Kernel EXCEPT !.state = st]
            r == Kernel_spawn_agent(k, name, task, priority, clock, clock)
        IN /\ r.ret.ok <=> st \in {"Initializing", "Running"}
           /\ r.ret.ok => r.k.state = "Running"
           /\ st \in {"Paused", "ShuttingDown", "Shutdown"} =>
                /\ ~r.ret.ok
                /\ r.k.state = st
                /\ r.k.sched = Sched
                /\ r.k.ctx = Ctx
                /\ r.k.stats.total_agents = stats.total_agents

\* an agent was spawned and the kernel is now in a state that refuses the call
C30_Witness ==
    /\ kernel_state \in {"Paused", "Shutdown"}
    /\ stats.total_agents >= 1
    /\ DOMAIN processes # {}
    /\ spawn_pc = "idle"

(***************************************************************************)
(* Claims about the errors of the checkpoint calls.                        *)
(***************************************************************************)
\* C31: create_checkpoint(pid, d) in a kernel state other than Running returns
\* an error and does not suspend the process; in state Running, for an unknown
\* pid and for a process that is neither Ready nor Running, it returns an error
\* and writes no checkpoint to storage.
C31_CreateCheckpointErrors ==
    \A st \in KernelState, pid \in PidArgs, description \in Descriptions,
       db_ok \in BOOLEAN :
        LET k == [Kernel EXCEPT !.state = st]
            r == Kernel_create_checkpoint(k, pid, description, db_ok)
        IN /\ st # "Running" =>
                /\ ~r.ret.ok
                /\ r.k.sched = Sched
                /\ r.k.checkpoints = checkpoints
           /\ (st = "Running"
                 /\ (pid \notin DOMAIN processes
                       \/ processes[pid].state \notin {"Ready", "Running"})) =>
                /\ ~r.ret.ok
                /\ r.k.checkpoints = checkpoints

\* the kernel is Running, a checkpoint is stored, and a process is Suspended
C31_Witness ==
    /\ kernel_state = "Running"
    /\ DOMAIN checkpoints # {}
    /\ \E pid \in DOMAIN processes : processes[pid].state = "Suspended"

\* C32: restore_checkpoint(id) in kernel state Initializing or Running, when
\* storage holds a checkpoint with that id, registers exactly one new process
\* with a fresh pid, the name "Restored Agent", priority 50 and state Ready,
\* appends its pid to the ready queue and returns the pid; when the id is
\* absent, or the kernel is in another state, it returns an error and leaves
\* the scheduler unchanged.
C32_RestoreCheckpoint ==
    \A st \in KernelState, checkpoint_id \in CheckpointIdArgs :
        LET k == [Kernel EXCEPT !.state = st]
            r == Kernel_restore_checkpoint(k, checkpoint_id, TRUE)
            pid == r.ret.value
        IN IF st \in {"Initializing", "Running"} /\ checkpoint_id \in DOMAIN checkpoints
           THEN /\ r.ret.ok
                /\ pid \notin DOMAIN processes
                /\ DOMAIN r.k.sched.processes = DOMAIN processes \cup {pid}
                /\ \A q \in DOMAIN processes : r.k.sched.processes[q] = processes[q]
                /\ r.k.sched.processes[pid].name = "Restored Agent"
                /\ r.k.sched.processes[pid].priority = 50
                /\ r.k.sched.processes[pid].state = "Ready"
                /\ r.k.sched.ready_queue = Append(ready_queue, pid)
                /\ r.k.sched.running_queue = running_queue
                /\ r.k.sched.waiting_queue = waiting_queue
           ELSE /\ ~r.ret.ok
                /\ r.k.sched = Sched

\* a stored checkpoint has been restored: the restored process is Ready and
\* queued
C32_Witness ==
    /\ DOMAIN checkpoints # {}
    /\ \E pid \in DOMAIN processes :
        /\ processes[pid].name = "Restored Agent"
        /\ processes[pid].state = "Ready"
        /\ in_queue(ready_queue, pid)

(***************************************************************************)
(* Claims about the order of the assembled context.                        *)
(***************************************************************************)
\* the type priorities and the roles the specification gives
spec_priority(page_type) ==
    CASE page_type = "System" -> 5
      [] page_type = "Task" -> 4
      [] page_type = "Tools" -> 3
      [] page_type = "Working" -> 2
      [] page_type = "ToolResult" -> 1
      [] OTHER -> 0

spec_role(page_type) ==
    IF page_type \in {"System", "Task", "Tools", "LongTerm"} THEN "system"
    ELSE IF page_type = "User" THEN "user"
    ELSE "assistant"

\* the page with this id, from the tier that holds it
page_of(c, id) ==
    IF lru_contains(c.pages_in_memory, id) THEN <<lru_peek(c.pages_in_memory, id)>>
    ELSE IF id \in DOMAIN c.swapped_pages THEN <<c.swapped_pages[id]>>
    ELSE <<>>

\* the pages with ids 1..n were allocated with these types, in this order
allocated_as(c, types) ==
    \A id \in 1..Len(types) :
        page_of(c, id) # <<>> /\ page_of(c, id)[1].page_type = types[id]

\* C33: cache-optimized assembly order: get_agent_context(pid, true) returns
\* one message per assembled page, in the order of descending type priority
\* (System 5, Task 4, Tools 3, Working 2, ToolResult 1, User and LongTerm 0)
\* and, within a priority, descending last_accessed, with the role system for
\* System, Task, Tools and LongTerm, user for User, assistant for Working and
\* ToolResult; pages allocated in the order System s, Working w, Task t,
\* ToolResult r come out as system(s), system(t), assistant(w), assistant(r).
C33_CacheOptimizedOrder ==
    /\ \A page_type \in PageType :
        /\ type_priority(page_type) = spec_priority(page_type)
        /\ role_of(page_type) = spec_role(page_type)
    /\ \A agent_pid \in AgentPids :
        LET pages == context_pages(Ctx, agent_pid, TRUE)
            context == get_agent_context(Ctx, agent_pid, TRUE)
        IN /\ Len(context) = Len(pages)
           /\ \A i \in 1..Len(pages) :
                /\ context[i].role = spec_role(pages[i].page_type)
                /\ context[i].content = pages[i].content
           /\ \A i, j \in 1..Len(pages) :
                i < j =>
                    \/ spec_priority(pages[i].page_type) > spec_priority(pages[j].page_type)
                    \/ /\ spec_priority(pages[i].page_type) = spec_priority(pages[j].page_type)
                       /\ pages[i].last_accessed >= pages[j].last_accessed
    /\ (next_page_id = 4 /\ allocated_as(Ctx, <<"System", "Working", "Task", "ToolResult">>)) =>
        get_agent_context(Ctx, 1, TRUE) =
            <<LlmMessage_new("system", TypedContent(1)),
              LlmMessage_new("system", TypedContent(3)),
              LlmMessage_new("assistant", TypedContent(2)),
              LlmMessage_new("assistant", TypedContent(4))>>

\* the four pages of the example are allocated, and one of them was accessed
\* after the last allocation
C33_Witness ==
    /\ next_page_id = 4
    /\ allocated_as(Ctx, <<"System", "Working", "Task", "ToolResult">>)
    /\ Len(pages_in_memory) = 4
    /\ pages_in_memory[1].id = 2
    /\ pages_in_memory[1].last_accessed > pages_in_memory[1].created_at

(***************************************************************************)
(* Claims about the audit log of the sandbox manager.                      *)
(***************************************************************************)
\* C34: sandbox violations are logged: a check_operation(pid, op) that returns
\* a SecurityViolation appends exactly one entry, for that pid, to the audit
\* log, and one that returns success appends none; the entries already in the
\* log stay as they are, also across create_sandbox.
C34_ViolationsAreLogged ==
    /\ \A pid \in OperationPids, operation \in SecurityOperations :
        LET r == check_operation(Sandbox, pid, operation)
        IN /\ ~r.ret.ok =>
                /\ Len(r.m.audit_log) = Len(audit_log) + 1
                /\ SubSeq(r.m.audit_log, 1, Len(audit_log)) = audit_log
                /\ r.m.audit_log[Len(audit_log) + 1].agent_pid = pid
           /\ r.ret.ok => r.m.audit_log = audit_log
    /\ \A pid \in SandboxPids, p \in PolicyArgs :
        create_sandbox(Sandbox, pid, p).audit_log = audit_log

\* two violations, of two pids, are in the log
C34_Witness ==
    /\ Len(audit_log) = 2
    /\ audit_log[1].agent_pid # audit_log[2].agent_pid

\* C40: check_operation(pid, op) for a pid that has no sandbox registered
\* returns success for every operation and appends nothing to the audit log.
C40_NoSandboxAllowsAll ==
    \A pid \in OperationPids, operation \in SecurityOperations :
        pid \notin DOMAIN sandboxes =>
            LET r == check_operation(Sandbox, pid, operation)
            IN /\ r.ret.ok
               /\ r.m.audit_log = audit_log
               /\ r.m.sandboxes = sandboxes

\* one pid has a sandbox that has denied an operation, another pid has none
C40_Witness ==
    /\ DOMAIN sandboxes = {1}
    /\ Len(audit_log) >= 1
    /\ sandboxes[1].policy.level = "Standard"

(***************************************************************************)
(* Claims about the main loop.                                             *)
(***************************************************************************)
\* C35: run-loop termination under fair scheduling: a run(Some(n)) performs at
\* most n iterations and returns, and a run(None) during which shutdown() has
\* cleared the running flag and returned eventually returns.
C35_RunLoopTerminates ==
    /\ [](max_iterations # <<>> => iteration <= max_iterations[1])
    /\ (run_pc # "idle" /\ max_iterations # <<>>) ~> (run_pc = "idle")
    /\ (run_pc # "idle" /\ kernel_state = "Shutdown") ~> (run_pc = "idle")

\* every pid with a usage record in s has one in s2 whose total_tokens is
\* not smaller
total_tokens_kept(s, s2) ==
    \A p \in DOMAIN s.resource_usage :
        /\ p \in DOMAIN s2.resource_usage
        /\ s2.resource_usage[p].total_tokens >= s.resource_usage[p].total_tokens

\* C36: clear_window_usage() sets window_tokens of every pid to 0 and leaves
\* total_tokens, api_calls, the three queues and the process table as they
\* are; no scheduler operation (add_process, schedule, request_resources,
\* suspend_process, wait_process, terminate_process, resume_process,
\* clear_window_usage) applied to a reachable state lowers the total_tokens
\* of a pid.
C36_ClearWindowUsageFrame ==
    /\ LET s2 == clear_window_usage(Sched)
       IN /\ DOMAIN s2.resource_usage = DOMAIN resource_usage
          /\ \A p \in DOMAIN resource_usage :
                 /\ s2.resource_usage[p].window_tokens = 0
                 /\ s2.resource_usage[p].total_tokens = resource_usage[p].total_tokens
                 /\ s2.resource_usage[p].api_calls = resource_usage[p].api_calls
          /\ s2.ready_queue = ready_queue
          /\ s2.running_queue = running_queue
          /\ s2.waiting_queue = waiting_queue
          /\ s2.processes = processes
          /\ total_tokens_kept(Sched, s2)
    /\ \A name \in SchedNames, priority \in Priorities :
          total_tokens_kept(Sched, add_process(Sched, AgentProcess_new(fresh_pid, name, priority)))
    /\ total_tokens_kept(Sched, schedule(Sched, policy).s)
    /\ \A pid \in PidArgs :
          /\ \A tokens_needed \in TokensNeeded :
                 total_tokens_kept(Sched, request_resources(Sched, pid, tokens_needed).s)
          /\ \A create_checkpoint \in BOOLEAN :
                 total_tokens_kept(Sched, suspend_process(Sched, pid, create_checkpoint, fresh_uuid).s)
          /\ total_tokens_kept(Sched, wait_process(Sched, pid))
          /\ total_tokens_kept(Sched, terminate_process(Sched, pid))
          /\ total_tokens_kept(Sched, resume_process(Sched, pid))

\* a pid with tokens in its window and a process in each kind of queue
C36_Witness ==
    /\ \E p \in DOMAIN resource_usage :
          /\ resource_usage[p].window_tokens > 0
          /\ resource_usage[p].total_tokens > 0
          /\ resource_usage[p].api_calls > 0
    /\ running_queue # <<>>
    /\ ready_queue # <<>>

\* no pid of s is over the threshold, so check_preemption finds none to move
within_threshold(s) ==
    /\ \A p \in DOMAIN s.resource_usage :
          s.resource_usage[p].window_tokens <= preemption_threshold
    /\ to_suspend(s) = <<>>
    /\ check_preemption(s) = s

\* no pid's window_tokens is greater in s2 than in s (a new pid starts at 0)
window_tokens_not_raised(s, s2) ==
    \A p \in DOMAIN s2.resource_usage :
        s2.resource_usage[p].window_tokens <=
            (IF p \in DOMAIN s.resource_usage
             THEN s.resource_usage[p].window_tokens ELSE 0)

\* C37: in every reachable scheduler state every pid has window_tokens <=
\* preemption_threshold: request_resources, applied to a reachable state
\* with any pid and amount, leaves every pid within the threshold, and no
\* other operation raises a pid's window_tokens; so the test window_tokens >
\* preemption_threshold of check_preemption selects no pid and schedule()
\* preempts nothing.
C37_WindowWithinThreshold ==
    /\ within_threshold(Sched)
    /\ \A pid \in PidArgs :
          /\ \A tokens_needed \in TokensNeeded \cup {1} :
                 within_threshold(request_resources(Sched, pid, tokens_needed).s)
          /\ \A create_checkpoint \in BOOLEAN :
                 window_tokens_not_raised(Sched,
                     suspend_process(Sched, pid, create_checkpoint, fresh_uuid).s)
          /\ window_tokens_not_raised(Sched, wait_process(Sched, pid))
          /\ window_tokens_not_raised(Sched, terminate_process(Sched, pid))
          /\ window_tokens_not_raised(Sched, resume_process(Sched, pid))
    /\ \A name \in SchedNames, priority \in Priorities :
          window_tokens_not_raised(Sched,
              add_process(Sched, AgentProcess_new(fresh_pid, name, priority)))
    /\ window_tokens_not_raised(Sched, schedule(Sched, policy).s)
    /\ window_tokens_not_raised(Sched, clear_window_usage(Sched))

\* a running pid whose window is exactly at the threshold: one more token
\* is refused, and schedule() leaves the pid running
C37_Witness ==
    \E p \in DOMAIN resource_usage :
        /\ resource_usage[p].window_tokens = preemption_threshold
        /\ count(running_queue, p) > 0
        /\ ~request_resources(Sched, p, 1).ret
        /\ count(schedule(Sched, policy).s.running_queue, p) > 0

\* C38: while the kernel runs and nothing but the kernel's own steps
\* (spawn_agent, run, shutdown) acts on the scheduler, a registered pid that
\* is not in the ready queue never enters it; a pid that schedule() has moved
\* to the running queue is such a pid, so it is never scheduled again and
\* execute_agent_step, which asks request_resources once for the pid it is
\* given, runs at most once for each pid, however many passes the loop makes.
C38_ScheduledOnce ==
    /\ [][\A p \in DOMAIN processes :
              count(ready_queue, p) = 0 => count(ready_queue', p) = 0]_vars
    /\ [](\A p \in DOMAIN resource_usage : resource_usage[p].api_calls <= 1)
    /\ [](\A p \in DOMAIN processes :
              count(ready_queue, p) + count(running_queue, p) <= 1)

\* a run of two passes after which the one scheduled pid is still running
\* and has had one step
C38_Witness ==
    /\ run_pc = "loop"
    /\ iteration = 2
    /\ \E p \in DOMAIN processes :
          /\ count(running_queue, p) = 1
          /\ count(ready_queue, p) = 0
          /\ resource_usage[p].api_calls = 1

\* concurrent calls of run() and shutdown() on one kernel
ConcurrentRunSpec == KernelSpecInit /\ [][ConcurrentRunNext]_vars

\* the call is in the main loop: at its head or in its body
in_main_loop(pc) == pc \in {"loop", "body"}

\* C39: at most one call of run() is in the kernel's main loop at any time,
\* in every interleaving of concurrent run() and shutdown() calls, and a
\* run() called while a loop is under way returns the error "Kernel already
\* running" without entering the loop.
C39_SingleMainLoop ==
    /\ ~(in_main_loop(run_pc) /\ in_main_loop(run2_pc))
    /\ (in_main_loop(run_pc) \/ in_main_loop(run2_pc)) =>
          Kernel_run_enter(Kernel).ret = Err(None, "Kernel already running")

====
